---- MODULE Spec2Model ----
(***************************************************************************)
(* Model of the abaper ADT client: the authentication handshake of the two *)
(* client implementations (ADTClient and ADTClientImpl, adt_client.go),    *)
(* the lock -> PUT -> unlock source workflows, the lock-response parser    *)
(* and the package-level connection cache of main.go.                      *)
(*                                                                         *)
(* Each HTTP exchange is one step: the remote system's answer is the       *)
(* step's input, and the step runs the client code up to its next request. *)
(***************************************************************************)
EXTENDS Integers, Sequences, FiniteSets, TLC

VARIABLES
    \* ---- one client object (ADTClient / ADTClientImpl fields) ----
    impl,            \* which of the two implementations the object is
    csrfToken,       \* c.csrfToken
    authenticated,   \* c.authenticated
    sessionType,     \* c.sessionType
    call,            \* the client call in progress (Authenticate, TestConnection, ...)
    \* ---- source workflows running on the client ----
    flow,            \* per caller: the workflow invocation's locals and what it sent
    \* ---- parseLockResponse applied to response bodies ----
    pIn, pOut,
    \* ---- package-level cache of main.go ----
    cachedADTClient, cachedADTConfig, cacheTime,
    now,             \* wall clock, minutes
    clients,         \* the client objects createADTClient has built
    gc,              \* per caller: the getCachedADTClient invocation's locals
    hist,            \* completed getCachedADTClient calls, oldest first
    \* ---- the process (func main) ----
    proc,            \* where main is, how it ended, and the cleanups it ran
    \* ---- program creation running on the client ----
    create           \* the CreateProgram / CreateProgramWithOptions call in progress

clientVars == <<impl, csrfToken, authenticated, sessionType>>
cacheVars  == <<cachedADTClient, cachedADTConfig, cacheTime, now, clients, gc, hist, proc, create>>
parseVars  == <<pIn, pOut>>
notAuth == <<flow, pIn, pOut, cachedADTClient, cachedADTConfig, cacheTime, now,
             clients, gc, hist, proc, create>>
vars == <<impl, csrfToken, authenticated, sessionType, call, flow, pIn, pOut,
          cachedADTClient, cachedADTConfig, cacheTime, now, clients, gc, hist, proc, create>>

----------------------------------------------------------------------------
(* HTTP answers.  A transport error (client.Do returned err) has no status. *)

Resp(s) == [neterr |-> FALSE, status |-> s]
NetErr  == [neterr |-> TRUE, status |-> 0]

SessionStateful  == "stateful"
SessionStateless == "stateless"
SessionTypes == {SessionStateful, SessionStateless}

Impls == {"ADTClient", "ADTClientImpl"}

\* Values the remote system may put in the X-CSRF-Token response header
\* ("" is an absent header, "Fetch" the placeholder echoed back).
Tokens == {"", "Fetch", "T1", "T2"}

\* Answers to the discovery-style GETs of login and validation.
ProbeAnswers == {NetErr} \cup {Resp(s) : s \in {200, 304, 401, 403, 404, 500}}

\* Outcomes of the HEAD request of testConnectivity: err == nil, or an error
\* whose message contains the markers in msg (a message may contain several,
\* or none).
Markers == {"connection refused", "timeout", "no such host", "EOF"}
ConnAnswers == {[ok |-> TRUE, msg |-> {}]} \cup {[ok |-> FALSE, msg |-> m] : m \in SUBSET Markers}

\* The endpoints performLogin / validateSession of ADTClient iterate over.
endpoints == <<"/core/info/system", "/discovery", "/compatibility/graph">>

StepOrder == <<"connectivity", "login", "csrf", "validate">>

\* hdrs: what each request of the call carried; ans: the answers to the requests
\* of the step the call is in (or ended in), 0 standing for a transport error;
\* tok: the X-CSRF-Token header of the answer to the token fetch.
IdleCall == [op |-> "none", pc |-> "idle", idx |-> 1, lastError |-> FALSE,
             steps |-> <<>>, reqs |-> <<>>, hdrs |-> <<>>, ans |-> <<>>, tok |-> "",
             conn |-> [msg |-> {}, class |-> ""], err |-> "nil"]

IsAuthenticatedFlagOnly == authenticated
IsAuthenticated == authenticated /\ csrfToken # ""

\* Callers that may run a workflow on the client.
Procs == {"p1", "p2"}

NoFlow == [pc |-> "idle", kind |-> "none", orig |-> "", source |-> "",
           lockHandle |-> "", corrNr |-> "", granted |-> "", prev |-> "",
           sent |-> <<>>, unlockErr |-> "nil", err |-> "nil"]
IdleFlow == [p \in Procs |-> NoFlow]

\* The connection settings a call of getCachedADTClient is given.
Profile(h, c, u, pw) == [host |-> h, client |-> c, user |-> u, pass |-> pw]

\* A call of getCachedADTClient: its position, its locals, and what it saw when
\* it evaluated the cache condition (seen, age, valid, alive, overlap are kept
\* for the record of the call only).
NoCall == [pc |-> "idle", profile |-> Profile("", "", "", ""), key |-> "",
           client |-> 0, auth |-> 0, hit |-> FALSE, seen |-> 0, age |-> 0,
           valid |-> FALSE, alive |-> FALSE, probe |-> NetErr, overlap |-> FALSE,
           err |-> "nil"]
IdleCalls == [p \in Procs |-> NoCall]

\* No CreateProgram / CreateProgramWithOptions call has been made.
NoCreate == [op |-> "none", pc |-> "idle", source |-> "", insert |-> FALSE,
             activate |-> FALSE, sent |-> <<>>, err |-> "nil"]

\* main after its start-up: the deferred calls are registered, the signal
\* goroutine waits, no cleanup has run.
MainRunning == [pc |-> "running", by |-> "", cleanups |-> 0]

\* The package-level cache before the first call: nil client, "" key, zero time.
CacheEmpty ==
    /\ cachedADTClient = 0 /\ cachedADTConfig = "" /\ cacheTime = 0
    /\ now = 0 /\ clients = <<>> /\ gc = IdleCalls /\ hist = <<>>
    /\ proc = MainRunning
    /\ create = NoCreate

----------------------------------------------------------------------------
(* Authenticate, step by step.                                             *)

CallFree == call.pc \in {"idle", "done"}

\* StepDone without the early return: a failed step falls through to the next.
StepDoneFallThrough(c, step, ok, next, e) ==
    [c EXCEPT !.steps = Append(@, [step |-> step, ok |-> ok]),
              !.pc = next,
              !.err = IF ok THEN @ ELSE e,
              !.idx = 1, !.lastError = FALSE]

\* A step of Authenticate ended: record it, and either go on or return err.
StepDone(c, step, ok, next, e) ==
    [c EXCEPT !.steps = Append(@, [step |-> step, ok |-> ok]),
              !.pc = IF ok THEN next ELSE "done",
              !.err = IF ok THEN @ ELSE e,
              !.idx = 1, !.lastError = FALSE]

\* X-sap-adt-sessiontype and X-CSRF-Token of a request, "" for a header that is
\* not set (held is the client's csrfToken when the request was built, kept for
\* comparison).  ADTClient: addStandardHeaders writes "stateful"; login carries no
\* token, the token fetch "Fetch", addAuthHeaders the token when there is one.
\* ADTClientImpl: login and token fetch set neither session header, and
\* addAuthHeaders writes c.sessionType.  The HEAD of testConnectivity is bare.
HeadersADTClient(step) ==
    [step |-> step, held |-> csrfToken,
     stype |-> IF step = "connectivity" THEN "" ELSE "stateful",
     csrf |-> IF step \in {"connectivity", "login"} THEN ""
              ELSE IF step = "csrf" THEN "Fetch" ELSE csrfToken]

HeadersImpl(step) ==
    [step |-> step, held |-> csrfToken,
     stype |-> IF step \in {"connectivity", "login", "csrf"} THEN "" ELSE sessionType,
     csrf |-> IF step \in {"connectivity", "login"} THEN ""
              ELSE IF step = "csrf" THEN "Fetch" ELSE csrfToken]

Headers(step) == IF impl = "ADTClient" THEN HeadersADTClient(step) ELSE HeadersImpl(step)

Sent(c, step) == [c EXCEPT !.reqs = Append(@, step), !.hdrs = Append(@, Headers(step))]

\* The answer to the request just sent.
Answered(c, step, r) ==
    LET a == [step |-> step, status |-> IF r.neterr THEN 0 ELSE r.status]
    IN  [c EXCEPT !.ans = IF @ # <<>> /\ @[1].step # step THEN <<a>> ELSE Append(@, a)]

SetSessionType(t) ==
    /\ CallFree
    /\ sessionType' = t
    /\ UNCHANGED <<impl, csrfToken, authenticated, call, notAuth>>

AuthenticateStart ==
    /\ CallFree
    /\ call' = [IdleCall EXCEPT !.op = "Authenticate", !.pc = "conn"]
    /\ UNCHANGED <<clientVars, notAuth>>

TestConnectionStart ==
    /\ CallFree
    /\ call' = [IdleCall EXCEPT !.op = "TestConnection", !.pc = "tc_conn"]
    /\ UNCHANGED <<clientVars, notAuth>>

\* ADTClient.enhanceConnectivityError: the first marker found in the message,
\* in the order of the checks, decides the diagnostic.
enhanceConnectivityError(msg) ==
    IF "connection refused" \in msg THEN "connection refused"
    ELSE IF "timeout" \in msg THEN "connection timeout"
    ELSE IF "no such host" \in msg THEN "hostname resolution failed"
    ELSE IF "EOF" \in msg THEN "connection closed immediately (EOF)"
    ELSE "connectivity failed"

\* The error of testConnectivity for a failed HEAD: ADTClient classifies the
\* cause, ADTClientImpl wraps it in "connectivity test failed: %w".
ConnError(a) ==
    [msg |-> a.msg,
     class |-> IF impl = "ADTClient" THEN enhanceConnectivityError(a.msg)
               ELSE "connectivity test failed"]

\* TestConnection step 1: its own testConnectivity, before Authenticate.
TestConnectionProbe(a) ==
    /\ call.pc = "tc_conn"
    /\ call' = IF a.ok THEN [call EXCEPT !.pc = "conn"]
               ELSE [call EXCEPT !.pc = "done", !.err = "basic connectivity failed",
                                 !.conn = ConnError(a)]
    /\ UNCHANGED <<clientVars, notAuth>>

\* Authenticate step 1: testConnectivity.
testConnectivity(a) ==
    /\ call.pc = "conn"
    /\ call' = StepDone([Sent(call, "connectivity") EXCEPT
                            !.conn = IF a.ok THEN @ ELSE ConnError(a)],
                        "connectivity", a.ok, "login", "connectivity test failed")
    /\ UNCHANGED <<clientVars, notAuth>>

\* ADTClient.performLogin: one endpoint per exchange.
LoginNextADTClient(c, r) ==
    LET s == Answered(Sent(c, "login"), "login", r)
        more(le) == IF c.idx < Len(endpoints)
                    THEN [s EXCEPT !.idx = @ + 1, !.lastError = le]
                    ELSE StepDone(s, "login", FALSE, "done",
                                  IF le THEN "login failed: no endpoint"
                                        ELSE "login failed: no suitable endpoint")
    IN  IF r.neterr THEN more(TRUE)
        ELSE IF r.status \in {200, 304} THEN StepDone(s, "login", TRUE, "csrf", "nil")
        ELSE IF r.status = 401 THEN StepDone(s, "login", FALSE, "done", "login failed: 401")
        ELSE IF r.status = 403 THEN StepDone(s, "login", FALSE, "done", "login failed: 403")
        ELSE IF r.status = 404 THEN more(TRUE)
        ELSE more(c.lastError)

\* ADTClientImpl.performLogin: a single GET /discovery.
LoginNextImpl(c, r) ==
    LET s == Answered(Sent(c, "login"), "login", r)
    IN  IF r.neterr THEN StepDone(s, "login", FALSE, "done", "login failed: request")
        ELSE IF r.status = 401 THEN StepDone(s, "login", FALSE, "done", "login failed: 401")
        ELSE IF r.status # 200 THEN StepDone(s, "login", FALSE, "done", "login failed: HTTP")
        ELSE StepDone(s, "login", TRUE, "csrf", "nil")

\* The text of the error a call returns for a login answered 401, as the
\* chunks fmt.Errorf joins: the wrappers of TestConnection and Authenticate and
\* the message of performLogin.  cfg is the client's configuration; no chunk is
\* taken from it.
ErrorTextLeaky(op, cfg) ==
    <<"login failed: ", "authentication failed for ", cfg.user, ":", cfg.pass>>
ErrorText(op, cfg) ==
    (IF op = "TestConnection" THEN <<"authentication failed: ">> ELSE <<>>)
    \o <<"login failed: ">>
    \o (IF impl = "ADTClient"
        THEN <<"authentication failed (401): Invalid username or password">>
        ELSE <<"authentication failed: invalid credentials">>)

performLogin(r) ==
    /\ call.pc = "login"
    /\ call' = IF impl = "ADTClient" THEN LoginNextADTClient(call, r)
                                      ELSE LoginNextImpl(call, r)
    /\ UNCHANGED <<clientVars, notAuth>>

\* getCSRFToken: the token the call leaves in c.csrfToken.
CSRFStoredADTClient(old, r, tok) ==
    IF r.neterr \/ r.status \notin {200, 304} THEN old ELSE tok

CSRFStoredImpl(old, r, tok) ==
    IF r.neterr \/ r.status # 200 \/ tok = "" THEN old ELSE tok

CSRFOkADTClient(r, tok) ==
    ~r.neterr /\ r.status \in {200, 304} /\ tok # "" /\ tok # "Fetch"

CSRFOkImpl(r, tok) ==
    ~r.neterr /\ r.status = 200 /\ tok # ""

getCSRFToken(r, tok) ==
    /\ call.pc = "csrf"
    /\ csrfToken' = IF impl = "ADTClient" THEN CSRFStoredADTClient(csrfToken, r, tok)
                                           ELSE CSRFStoredImpl(csrfToken, r, tok)
    /\ call' = StepDone([Answered(Sent(call, "csrf"), "csrf", r) EXCEPT !.tok = tok], "csrf",
                        IF impl = "ADTClient" THEN CSRFOkADTClient(r, tok)
                                              ELSE CSRFOkImpl(r, tok),
                        "validate", "CSRF token retrieval failed")
    /\ UNCHANGED <<impl, authenticated, sessionType, notAuth>>

\* ADTClient.validateSession: one endpoint per exchange; when every endpoint
\* failed, a non-empty token still validates the session.
ValidateNextADTClient(c, r, tok) ==
    LET s == Answered(Sent(c, "validate"), "validate", r)
    IN  IF ~r.neterr /\ r.status \in {200, 304}
        THEN StepDone(s, "validate", TRUE, "done", "nil")
        ELSE IF c.idx < Len(endpoints)
        THEN [s EXCEPT !.idx = @ + 1, !.lastError = TRUE]
        ELSE StepDone(s, "validate", tok # "", "done", "session validation failed")

\* ADTClientImpl.validateSession: a single GET /discovery.
ValidateNextImpl(c, r) ==
    LET s == Answered(Sent(c, "validate"), "validate", r)
    IN  StepDone(s, "validate", ~r.neterr /\ r.status = 200, "done",
                 "session validation failed")

\* Authenticate's tail: c.authenticated = true once step 4 returned nil.
AuthenticatedAfter(old, c) ==
    IF c.pc = "done" /\ c.err = "nil" THEN TRUE ELSE old

validateSession(r) ==
    /\ call.pc = "validate"
    /\ call' = IF impl = "ADTClient" THEN ValidateNextADTClient(call, r, csrfToken)
                                      ELSE ValidateNextImpl(call, r)
    /\ authenticated' = AuthenticatedAfter(authenticated, call')
    /\ UNCHANGED <<impl, csrfToken, sessionType, notAuth>>

\* A read operation that sends its request without asking IsAuthenticated().
ObjectOpUnguarded ==
    /\ CallFree
    /\ call' = [IdleCall EXCEPT !.op = "ObjectOp", !.pc = "done",
                  !.hdrs = <<Headers("read")>>, !.err = "nil"]
    /\ UNCHANGED <<clientVars, notAuth>>

\* Any Get* / Search / List operation: refused unless IsAuthenticated().
ObjectOp ==
    /\ CallFree
    /\ call' = [IdleCall EXCEPT !.op = "ObjectOp", !.pc = "done",
                  !.hdrs = IF IsAuthenticated THEN <<Headers("read")>> ELSE <<>>,
                  !.err = IF IsAuthenticated THEN "nil" ELSE "client not authenticated"]
    /\ UNCHANGED <<clientVars, notAuth>>

\* CreateProgram: refused unless IsAuthenticated(); otherwise the POST goes out
\* with addAuthHeaders.
CreateProgram ==
    /\ CallFree
    /\ call' = [IdleCall EXCEPT !.op = "CreateProgram", !.pc = "done",
                  !.hdrs = IF IsAuthenticated THEN <<Headers("write")>> ELSE <<>>,
                  !.err = IF IsAuthenticated THEN "nil" ELSE "client not authenticated"]
    /\ UNCHANGED <<clientVars, notAuth>>

----------------------------------------------------------------------------

AuthRest ==
    /\ flow = IdleFlow
    /\ pIn = <<>> /\ pOut = <<>>
    /\ CacheEmpty

\* NewADTClient: no token, not authenticated, stateful by default.
InitAuth ==
    /\ impl \in Impls
    /\ csrfToken = "" /\ authenticated = FALSE
    /\ sessionType = SessionStateful
    /\ call = IdleCall
    /\ AuthRest

NextAuth ==
    \/ \E t \in SessionTypes : SetSessionType(t)
    \/ AuthenticateStart
    \/ TestConnectionStart
    \/ \E a \in ConnAnswers : TestConnectionProbe(a)
    \/ \E a \in ConnAnswers : testConnectivity(a)
    \/ \E r \in ProbeAnswers : performLogin(r)
    \/ \E r \in ProbeAnswers, tok \in Tokens : getCSRFToken(r, tok)
    \/ \E r \in ProbeAnswers : validateSession(r)
    \/ ObjectOp
    \/ CreateProgram

SpecAuth == InitAuth /\ [][NextAuth]_vars

----------------------------------------------------------------------------
(* Lock response bodies and parseLockResponse.                             *)
(*                                                                         *)
(* A body is an XML tree (local element names, attributes, character data, *)
(* child elements) plus whether it is well-formed XML at all.              *)

Elem(n, a, t, k) == [name |-> n, attrs |-> a, text |-> t, kids |-> k]
Body(w, r) == [wf |-> w, root |-> r]

Handles == {"H1", "H2"}
CorrNrs == {"", "K1"}

\* Encoding (a): <abap><values><DATA><LOCK_HANDLE>h</LOCK_HANDLE><CORR_NR>t</CORR_NR>...
EncAbap(h, t) ==
    Body(TRUE, Elem("abap", <<>>, "", <<
        Elem("values", <<>>, "", <<
            Elem("DATA", <<>>, "", <<
                Elem("LOCK_HANDLE", <<>>, h, <<>>),
                Elem("CORR_NR", <<>>, t, <<>>) >>) >>) >>))

\* objectReferences envelope, handle and transport number as attributes of the
\* objectReference element.
EncObjRefAttrs(h, t) ==
    Body(TRUE, Elem("objectReferences", <<>>, "", <<
        Elem("objectReference",
             << <<"uri", "/x">>, <<"name", "X">>, <<"LOCK_HANDLE", h>>, <<"CORR_NR", t>> >>,
             "", <<>>) >>))

\* objectReferences envelope, handle and transport number as child elements of
\* the objectReference element.
EncObjRefElems(h, t) ==
    Body(TRUE, Elem("objectReferences", <<>>, "", <<
        Elem("objectReference", << <<"uri", "/x">>, <<"name", "X">> >>, "", <<
            Elem("LOCK_HANDLE", <<>>, h, <<>>),
            Elem("CORR_NR", <<>>, t, <<>>) >>) >>))

\* Some other document that holds a <lockHandle>h</lockHandle> element.
EncMarker(h) ==
    Body(TRUE, Elem("lockResult", <<>>, "", << Elem("lockHandle", <<>>, h, <<>>) >>))

\* An abap envelope with an empty LOCK_HANDLE that also holds the marker.
EncAbapMarker(h, m) ==
    Body(TRUE, Elem("abap", <<>>, "", <<
        Elem("values", <<>>, "", <<
            Elem("DATA", <<>>, "", << Elem("LOCK_HANDLE", <<>>, h, <<>>) >>) >>),
        Elem("lockHandle", <<>>, m, <<>>) >>))

\* Not XML: an HTML error page cut short, or an empty body.
EncBroken == Body(FALSE, Elem("html", <<>>, "Logon failed", <<>>))

HandleTexts == Handles \cup {""}

LockBodies ==
    {EncAbap(h, t) : h \in HandleTexts, t \in CorrNrs}
    \cup {EncObjRefAttrs(h, t) : h \in HandleTexts, t \in CorrNrs}
    \cup {EncObjRefElems(h, t) : h \in HandleTexts, t \in CorrNrs}
    \cup {EncMarker(h) : h \in HandleTexts}
    \cup {EncAbapMarker(h, m) : h \in HandleTexts, m \in HandleTexts}
    \cup {EncBroken}

\* encoding/xml: the field tagged `xml:"n"` takes the child element named n
\* (the last one, when there are several); attributes never match such a field.
KidsNamed(e, n) == SelectSeq(e.kids, LAMBDA k : k.name = n)
HasKid(e, n) == KidsNamed(e, n) # <<>>
Kid(e, n) == LET ks == KidsNamed(e, n) IN ks[Len(ks)]
KidText(e, n) == IF HasKid(e, n) THEN Kid(e, n).text ELSE ""

NoElem == Elem("", <<>>, "", <<>>)
KidOrNone(e, n) == IF HasKid(e, n) THEN Kid(e, n) ELSE NoElem

\* xml.Unmarshal(body, &LockResponse{}): XMLName `xml:"abap"`,
\* Values.Data.LockHandle `xml:"values" > "DATA" > "LOCK_HANDLE"`.
UnmarshalLockResponse(b) ==
    IF ~b.wf \/ b.root.name # "abap" THEN [err |-> TRUE, LockHandle |-> "", CorrNr |-> ""]
    ELSE LET data == KidOrNone(KidOrNone(b.root, "values"), "DATA")
         IN  [err |-> FALSE, LockHandle |-> KidText(data, "LOCK_HANDLE"),
              CorrNr |-> KidText(data, "CORR_NR")]

\* xml.Unmarshal(body, &ObjectRefsLockResponse{}): XMLName `xml:"objectReferences"`,
\* ObjectRef `xml:"objectReference"` with LockHandle `xml:"LOCK_HANDLE"`,
\* CorrNr `xml:"CORR_NR"` (elements) and uri / name (attributes).
UnmarshalObjectRefs(b) ==
    IF ~b.wf \/ b.root.name # "objectReferences"
    THEN [err |-> TRUE, LockHandle |-> "", CorrNr |-> ""]
    ELSE LET ref == KidOrNone(b.root, "objectReference")
         IN  [err |-> FALSE, LockHandle |-> KidText(ref, "LOCK_HANDLE"),
              CorrNr |-> KidText(ref, "CORR_NR")]

\* The body as text, in document order: what strings.Index searches.
RECURSIVE Flatten(_)
RECURSIVE FlattenAll(_)
Flatten(e) ==
    << [tok |-> "open", name |-> e.name, attrs |-> e.attrs] >>
    \o (IF e.text = "" THEN <<>> ELSE << [tok |-> "text", text |-> e.text] >>)
    \o FlattenAll(e.kids)
    \o << [tok |-> "close", name |-> e.name] >>
FlattenAll(es) ==
    IF es = <<>> THEN <<>> ELSE Flatten(Head(es)) \o FlattenAll(Tail(es))

IsOpenMarker(t) == t.tok = "open" /\ t.name = "lockHandle" /\ t.attrs = <<>>
IsCloseMarker(t) == t.tok = "close" /\ t.name = "lockHandle"

\* The last resort of parseLockResponse: the text between the first
\* "<lockHandle>" and the next "</lockHandle>".
RawMarker(b) ==
    LET ts == Flatten(b.root)
        opens == {i \in 1..Len(ts) : IsOpenMarker(ts[i])}
    IN  IF opens = {} THEN [found |-> FALSE, handle |-> ""]
        ELSE LET i == CHOOSE x \in opens : \A y \in opens : x <= y
                 closes == {j \in (i + 1)..Len(ts) : IsCloseMarker(ts[j])}
             IN  IF closes = {} THEN [found |-> FALSE, handle |-> ""]
                 ELSE LET j == CHOOSE x \in closes : \A y \in closes : x <= y
                      IN  [found |-> TRUE,
                           handle |-> IF j = i + 1 THEN ""
                                      ELSE IF j = i + 2 /\ ts[i + 1].tok = "text"
                                      THEN ts[i + 1].text
                                      ELSE "<markup>"]

\* What parseLockResponse returns: handle, transport number, error; raw holds
\* the response body that the text of the error carries.
ParseResult(h, c, e) == [lockHandle |-> h, corrNr |-> c, err |-> e, raw |-> <<>>]

\* "failed to parse lock response in any known format. Response: %s"
ParseFailure(b) == [lockHandle |-> "", corrNr |-> "", err |-> TRUE, raw |-> <<b>>]

\* parseLockResponse reading the handle from the objectReference attributes
\* instead of its child elements.
AttrOf(e, n) ==
    LET hits == SelectSeq(e.attrs, LAMBDA a : a[1] = n)
    IN  IF hits = <<>> THEN "" ELSE hits[1][2]

parseLockResponseAttrs(b) ==
    LET a == UnmarshalLockResponse(b)
        ref == KidOrNone(b.root, "objectReference")
        r == RawMarker(b)
    IN  IF ~a.err /\ a.LockHandle # "" THEN ParseResult(a.LockHandle, a.CorrNr, FALSE)
        ELSE IF b.wf /\ b.root.name = "objectReferences" /\ AttrOf(ref, "LOCK_HANDLE") # ""
        THEN ParseResult(AttrOf(ref, "LOCK_HANDLE"), AttrOf(ref, "CORR_NR"), FALSE)
        ELSE IF r.found THEN ParseResult(r.handle, "", FALSE)
        ELSE ParseFailure(b)

\* parseLockResponse searching for the raw marker before the two envelopes.
parseLockResponseRawFirst(b) ==
    LET a == UnmarshalLockResponse(b)
        o == UnmarshalObjectRefs(b)
        r == RawMarker(b)
    IN  IF r.found THEN ParseResult(r.handle, "", FALSE)
        ELSE IF ~a.err /\ a.LockHandle # "" THEN ParseResult(a.LockHandle, a.CorrNr, FALSE)
        ELSE IF ~o.err /\ o.LockHandle # "" THEN ParseResult(o.LockHandle, o.CorrNr, FALSE)
        ELSE ParseFailure(b)

\* parseLockResponse: abap envelope, then objectReferences envelope, then the
\* raw marker; the first that yields a handle wins.
parseLockResponse(b) ==
    LET a == UnmarshalLockResponse(b)
        o == UnmarshalObjectRefs(b)
        r == RawMarker(b)
    IN  IF ~a.err /\ a.LockHandle # "" THEN ParseResult(a.LockHandle, a.CorrNr, FALSE)
        ELSE IF ~o.err /\ o.LockHandle # "" THEN ParseResult(o.LockHandle, o.CorrNr, FALSE)
        ELSE IF r.found THEN ParseResult(r.handle, "", FALSE)
        ELSE ParseFailure(b)

\* parseLockResponse applied to two bodies, one after the other.
ParsePair ==
    /\ pOut = <<>>
    /\ pOut' = << parseLockResponse(pIn[1]), parseLockResponse(pIn[2]) >>
    /\ UNCHANGED <<pIn, clientVars, call, flow, cacheVars>>

NextBodies ==
    /\ pOut # <<>>
    /\ pIn' \in LockBodies \X LockBodies
    /\ pOut' = <<>>
    /\ UNCHANGED <<clientVars, call, flow, cacheVars>>

InitParse ==
    /\ pIn \in LockBodies \X LockBodies
    /\ pOut = <<>>
    /\ impl = "ADTClientImpl" /\ csrfToken = "" /\ authenticated = FALSE
    /\ sessionType = SessionStateful /\ call = IdleCall
    /\ flow = IdleFlow
    /\ CacheEmpty

NextParse == ParsePair \/ NextBodies

SpecParse == InitParse /\ [][NextParse]_vars

----------------------------------------------------------------------------
(* Source workflows: lock -> PUT -> unlock.                                *)

\* set*Source of ADTClientImpl: deferred unlock, sessionType forced and restored.
FamDefer  == {"setSourceUsingWorkingPattern", "setProgramSource", "setClassSource",
              "setIncludeSource", "setInterfaceSource"}
\* Update* of ADTClientImpl: lockSource / updateSource / unlockSource.
FamUpdate == {"UpdateProgram", "UpdateClass", "UpdateInclude", "UpdateInterface"}
\* insertProgramSource of ADTClientImpl: lockProgram / updateProgramSource / unlockProgram.
FamInsert == {"insertProgramSource"}
\* UpdateProgramSource of ADTClient: lockProgram (+ lockProgramAlternative), inline PUT.
FamLegacy == {"UpdateProgramSource"}

KindsOf(i) == IF i = "ADTClient" THEN FamLegacy
              ELSE FamDefer \cup FamUpdate \cup FamInsert

\* The entry points that check IsAuthenticated() themselves; the others are
\* reached only through callers that did.
PublicKinds == FamUpdate \cup FamLegacy

Names   == {"", "ZPROG"}
Sources == {"", "REPORT zprog.", "<?xml"}

\* Answers of the remote system to a lock request.  granted is the handle the
\* remote system issued with the answer ("" when it issued none).
LockAnswer(ne, st, ctm, body, hdr, g) ==
    [neterr |-> ne, status |-> st, ctm |-> ctm, body |-> body, hdr |-> hdr, granted |-> g]

FlowBodies ==
    {[body |-> EncAbap(h, t), granted |-> h] : h \in HandleTexts, t \in CorrNrs}
    \cup {[body |-> EncObjRefAttrs(h, t), granted |-> h] : h \in Handles, t \in CorrNrs}
    \cup {[body |-> EncObjRefElems(h, t), granted |-> h] : h \in Handles, t \in CorrNrs}
    \cup {[body |-> EncMarker(h), granted |-> h] : h \in HandleTexts}
    \cup {[body |-> EncBroken, granted |-> ""]}

\* The handle in one of the two response headers ADTClient.lockProgram reads.
FlowHeaders ==
    {[hdr |-> <<h, "">>, granted |-> h] : h \in HandleTexts}
    \cup {[hdr |-> <<"", h>>, granted |-> h] : h \in Handles}

LockRefusals ==
    {LockAnswer(TRUE, 0, FALSE, EncBroken, <<"", "">>, "")}
    \cup {LockAnswer(FALSE, 400, c, EncBroken, <<"", "">>, "") : c \in BOOLEAN}
    \cup {LockAnswer(FALSE, st, FALSE, EncBroken, <<"", "">>, "") : st \in {403, 409}}

LockAnswers(i) ==
    LockRefusals \cup
    (IF i = "ADTClient"
     THEN {LockAnswer(FALSE, 200, FALSE, EncBroken, x.hdr, x.granted) : x \in FlowHeaders}
     ELSE {LockAnswer(FALSE, 200, FALSE, x.body, <<"", "">>, x.granted) : x \in FlowBodies})

WriteAnswers == {NetErr} \cup {Resp(st) : st \in {200, 204, 500}}

LockOutcome(ok, retry, h, c) == [ok |-> ok, retry |-> retry, lockHandle |-> h, corrNr |-> c]
LockFailed == LockOutcome(FALSE, FALSE, "", "")

\* lockObject without the test of the handle parseLockResponse returned.
lockObjectUnchecked(a) ==
    IF a.neterr \/ a.status # 200 THEN LockFailed
    ELSE LET r == parseLockResponse(a.body)
         IN  IF r.err THEN LockFailed
             ELSE LockOutcome(TRUE, FALSE, r.lockHandle, r.corrNr)

\* lockObject and ADTClientImpl.lockProgram: 200, then parseLockResponse, then
\* the empty-handle check.  No retry.
lockObject(a) ==
    IF a.neterr \/ a.status # 200 THEN LockFailed
    ELSE LET r == parseLockResponse(a.body)
         IN  IF r.err \/ r.lockHandle = "" THEN LockFailed
             ELSE LockOutcome(TRUE, FALSE, r.lockHandle, r.corrNr)

\* lockSource: as lockObject, the transport number dropped.
lockSource(a) ==
    IF a.neterr \/ a.status # 200 THEN LockFailed
    ELSE LET r == parseLockResponse(a.body)
         IN  IF r.err \/ r.lockHandle = "" THEN LockFailed
             ELSE LockOutcome(TRUE, FALSE, r.lockHandle, "")

\* sap-adt-lockhandle, else X-sap-adt-lockhandle.
HeaderHandle(a) == IF a.hdr[1] # "" THEN a.hdr[1] ELSE a.hdr[2]

\* ADTClient.lockProgram: a 400 "Content type missing" hands over to
\* lockProgramAlternative; the handle comes from the response headers.
lockProgram(a) ==
    IF a.neterr THEN LockFailed
    ELSE IF a.status # 200
    THEN (IF a.status = 400 /\ a.ctm THEN LockOutcome(FALSE, TRUE, "", "") ELSE LockFailed)
    ELSE IF HeaderHandle(a) = "" THEN LockFailed
    ELSE LockOutcome(TRUE, FALSE, HeaderHandle(a), "")

\* ADTClient.lockProgramAlternative: the same request with an explicit form
\* Content-Type; any failure is final.
lockProgramAlternative(a) ==
    IF a.neterr \/ a.status # 200 \/ HeaderHandle(a) = "" THEN LockFailed
    ELSE LockOutcome(TRUE, FALSE, HeaderHandle(a), "")

\* The error a lock function returns for an answer it does not accept: the
\* format it is built from and the status written into it (st = 0: client.Do
\* returned an error).
LockError(kind, st) ==
    IF st = 0 THEN [fmt |-> "lock request failed: %w", status |-> 0]
    ELSE IF st # 200
    THEN [fmt |-> IF kind \in FamLegacy THEN "failed to lock program: HTTP %d - %s"
                  ELSE "lock failed: HTTP %d - %s",
          status |-> st]
    ELSE [fmt |-> "no lock handle received", status |-> 0]

LockStep(kind, a) ==
    IF kind \in FamLegacy THEN lockProgram(a)
    ELSE IF kind \in FamUpdate THEN lockSource(a)
    ELSE lockObject(a)

\* setObjectSource, updateProgramSource, ADTClient.UpdateProgramSource accept
\* 200 and 204; updateSource accepts 200.
PutOk(kind, a) ==
    ~a.neterr /\ (IF kind \in FamUpdate THEN a.status = 200 ELSE a.status \in {200, 204})

\* unlockObject, unlockProgram accept 200 and 204; unlockSource accepts 200.
UnlockOk(kind, a) ==
    ~a.neterr /\ (IF kind \in FamUpdate THEN a.status = 200 ELSE a.status \in {200, 204})

\* X-sap-adt-sessiontype as the request carries it: ADTClient writes "stateful",
\* ADTClientImpl.addAuthHeaders writes c.sessionType.
SessionHeader == IF impl = "ADTClient" THEN SessionStateful ELSE sessionType

\* Content-Type of the PUT: setObjectSource switches on a markup prolog.
PutContentType(kind, src) ==
    IF kind \in FamDefer /\ src = "<?xml" THEN "application/*"
    ELSE "text/plain; charset=utf-8"

Request(kind, enc, h, c, a, ctm) ==
    [req |-> kind, enc |-> enc, handle |-> h, corr |-> c,
     stype |-> SessionHeader, csrf |-> csrfToken,
     status |-> IF a.neterr THEN 0 ELSE a.status, ctm |-> ctm]

\* The handle the PUT and the unlock present: the local the lock call filled.
\* (prev, the handle of the caller's earlier run, is kept for comparison only.)
HandleCached(f) == IF f.prev # "" THEN f.prev ELSE f.lockHandle
HandleArg(f) == f.lockHandle

\* After the lock call: a workflow goes on to the PUT only with the handle of a
\* lock that succeeded; a lock error is returned at once (ADTClient.lockProgram
\* first hands a 400 "Content type missing" to lockProgramAlternative).
AfterLockIgnoringError(o) == IF o.retry THEN "lockAlt" ELSE "put"
AfterLock(o) == IF o.ok THEN "put" ELSE IF o.retry THEN "lockAlt" ELSE "done"

\* After the PUT every workflow goes on to unlock, whether the PUT failed or not.
AfterPutUnlockOnSuccessOnly(ok) == IF ok THEN "unlock" ELSE "done"
AfterPut(ok) == "unlock"

\* The error a workflow returns once the unlock was attempted: the PUT's.
ReturnedErrUnlockWins(putErr, unlockOk) == IF unlockOk THEN "nil" ELSE "unlock failed"
ReturnedErr(putErr, unlockOk) == putErr

\* The failures a returned error wraps (fmt.Errorf("...: %w", err)): a
\* workflow wraps the lock error or the PUT error; the unlock error is logged
\* or dropped and is in no returned value.
ErrCauses(e) ==
    IF e = "nil" THEN {}
    ELSE IF e = "failed to lock" THEN {"lock"}
    ELSE IF e = "failed to set source" THEN {"put"}
    ELSE {"guard"}

\* The deferred restore of the set*Source family: c.sessionType gets the value
\* the call saved at its entry.
originalSessionTypeDropped(f) == SessionStateful
originalSessionType(f) == f.orig

FlowFree(p) == flow[p].pc \in {"idle", "done"}

notFlow == <<impl, csrfToken, authenticated, call, pIn, pOut, cachedADTClient,
             cachedADTConfig, cacheTime, now, clients, gc, hist, proc, create>>

\* The workflow's entry: the guards of the public entry points, and for the
\* set*Source family the forced stateful session type.
FlowStart(p, kind, name, src) ==
    /\ FlowFree(p) /\ CallFree
    /\ kind \in KindsOf(impl)
    /\ kind \notin PublicKinds => IsAuthenticated
    /\ LET refused == IF kind \in PublicKinds /\ ~IsAuthenticated
                      THEN "client not authenticated"
                      ELSE IF kind \in FamUpdate /\ name = "" THEN "name cannot be empty"
                      ELSE IF kind \in FamUpdate /\ src = "" THEN "source code cannot be empty"
                      ELSE "nil"
           f == [NoFlow EXCEPT !.kind = kind, !.source = src, !.orig = sessionType,
                               !.prev = IF flow[p].granted # "" THEN flow[p].granted
                                        ELSE flow[p].prev]
       IN  /\ flow' = [flow EXCEPT ![p] =
                          IF refused # "nil" THEN [f EXCEPT !.pc = "done", !.err = refused]
                          ELSE [f EXCEPT !.pc = "lock"]]
           /\ sessionType' = IF refused = "nil" /\ kind \in FamDefer
                             THEN SessionStateful ELSE sessionType
    /\ UNCHANGED notFlow

\* The lock request and what the lock function makes of the answer.
FlowLock(p, a) ==
    LET f == flow[p]
        o == LockStep(f.kind, a)
        g == [f EXCEPT !.sent = Append(@, Request("LOCK", "none", "", "", a, a.ctm))]
    IN  /\ f.pc = "lock"
        /\ a \in LockAnswers(impl)
        /\ flow' = [flow EXCEPT ![p] =
               IF o.ok THEN [g EXCEPT !.pc = AfterLock(o), !.lockHandle = o.lockHandle,
                                      !.corrNr = o.corrNr, !.granted = a.granted]
               ELSE [g EXCEPT !.pc = AfterLock(o),
                              !.err = IF o.retry THEN @ ELSE "failed to lock"]]
        /\ sessionType' = IF ~o.ok /\ ~o.retry /\ f.kind \in FamDefer
                          THEN originalSessionType(f)
                          ELSE sessionType
        /\ UNCHANGED notFlow

\* lockProgramAlternative's request.
FlowLockAlt(p, a) ==
    LET f == flow[p]
        o == lockProgramAlternative(a)
        g == [f EXCEPT !.sent = Append(@, Request("LOCK", "form", "", "", a, a.ctm))]
    IN  /\ f.pc = "lockAlt"
        /\ a \in LockAnswers(impl)
        /\ flow' = [flow EXCEPT ![p] =
               IF o.ok THEN [g EXCEPT !.pc = AfterLock(o), !.lockHandle = o.lockHandle,
                                      !.corrNr = o.corrNr, !.granted = a.granted]
               ELSE [g EXCEPT !.pc = AfterLock(o), !.err = "failed to lock"]]
        /\ UNCHANGED <<sessionType, notFlow>>

\* The PUT of the source, with the lock handle as a query parameter.
FlowPut(p, a) ==
    LET f == flow[p]
        ok == PutOk(f.kind, a)
        rq == Request("PUT", PutContentType(f.kind, f.source), HandleArg(f), f.corrNr,
                      a, FALSE)
    IN  /\ f.pc = "put"
        /\ flow' = [flow EXCEPT ![p] =
               [f EXCEPT !.sent = Append(@, rq), !.pc = AfterPut(ok),
                         !.err = IF ok THEN "nil" ELSE "failed to set source"]]
        /\ UNCHANGED <<sessionType, notFlow>>

\* The unlock, its outcome (unlockErr) logged only; then the return (the
\* set*Source family restores the session type on the way out).
FlowUnlock(p, a) ==
    LET f == flow[p]
        rq == Request("UNLOCK", "none", HandleArg(f), "", a, FALSE)
    IN  /\ f.pc = "unlock"
        /\ flow' = [flow EXCEPT ![p] =
               [f EXCEPT !.sent = Append(@, rq), !.pc = "done",
                         !.unlockErr = IF UnlockOk(f.kind, a) THEN "nil"
                                       ELSE "unlock failed",
                         !.err = ReturnedErr(f.err, UnlockOk(f.kind, a))]]
        /\ sessionType' = IF f.kind \in FamDefer THEN originalSessionType(f)
                          ELSE sessionType
        /\ UNCHANGED notFlow

SetSessionTypeIdle(t) ==
    /\ \A p \in Procs : FlowFree(p)
    /\ SetSessionType(t)

\* A client as Authenticate leaves it (or a fresh one), one caller at a time.
InitFlow ==
    /\ impl \in Impls
    /\ \/ csrfToken = "T1" /\ authenticated = TRUE
       \/ csrfToken = "" /\ authenticated = FALSE
    /\ sessionType \in SessionTypes
    /\ call = IdleCall
    /\ flow = IdleFlow
    /\ pIn = <<>> /\ pOut = <<>>
    /\ CacheEmpty

\* One caller: the workflows of a client used sequentially.
Caller == "p1"

NextFlow ==
    \/ \E k \in FamDefer \cup FamUpdate \cup FamInsert \cup FamLegacy,
          n \in Names, src \in Sources : FlowStart(Caller, k, n, src)
    \/ \E a \in LockAnswers("ADTClient") \cup LockAnswers("ADTClientImpl") :
          FlowLock(Caller, a)
    \/ \E a \in LockAnswers("ADTClient") : FlowLockAlt(Caller, a)
    \/ \E a \in WriteAnswers : FlowPut(Caller, a)
    \/ \E a \in WriteAnswers : FlowUnlock(Caller, a)
    \/ \E t \in SessionTypes : SetSessionTypeIdle(t)

SpecFlow == InitFlow /\ [][NextFlow]_vars

\* Two callers of one client race for the lock of the same object.  The remote
\* system holds one lock per object: while a caller holds it, a lock request
\* of the other is answered 403 or 409.
RaceKinds == {"setProgramSource", "UpdateProgram", "insertProgramSource",
              "UpdateProgramSource"}
Holds(q) == flow[q].pc \in {"put", "unlock"}
\* The handle the remote system issues for the object raced for.
RaceHandle == "H1"
Conflicts == {a \in LockRefusals : ~a.neterr /\ a.status \in {403, 409}}
RemoteLockAnswers(p) ==
    IF \E q \in Procs \ {p} : Holds(q) THEN Conflicts
    ELSE {a \in LockAnswers(impl) \ Conflicts :
             a.granted # "" =>
                 /\ a.granted = RaceHandle
                 /\ IF flow[p].pc = "lockAlt" THEN lockProgramAlternative(a).ok
                    ELSE LockStep(flow[p].kind, a).ok}

RaceLock(p) == \E a \in RemoteLockAnswers(p) : FlowLock(p, a)
RaceLockAlt(p) == \E a \in RemoteLockAnswers(p) : FlowLockAlt(p, a)

InitLockRace == InitFlow /\ authenticated

NextLockRace ==
    \/ \E p \in Procs, k \in RaceKinds : FlowStart(p, k, "ZPROG", "REPORT zprog.")
    \/ \E p \in Procs : RaceLock(p)
    \/ \E p \in Procs : RaceLockAlt(p)
    \/ \E p \in Procs, a \in {Resp(200), Resp(500)} : FlowPut(p, a)
    \/ \E p \in Procs : FlowUnlock(p, Resp(200))

SpecLockRace == InitLockRace /\ [][NextLockRace]_vars

----------------------------------------------------------------------------
(* The lock operations, each applied to any answer of the remote system.    *)

\* The lock operations of each client.
LockOps(i) == IF i = "ADTClient" THEN {"ADTClient.lockProgram", "lockProgramAlternative"}
              ELSE {"lockObject", "lockProgram", "lockSource"}

\* Any answer: a refusal, or a 200 with any body and any pair of handle headers.
AnyLockAnswers ==
    LockRefusals
    \cup {LockAnswer(FALSE, 200, FALSE, b, <<h1, h2>>, "") :
              b \in LockBodies, h1 \in HandleTexts, h2 \in HandleTexts}

\* What the lock operation op returns for answer a.  ADTClientImpl.lockProgram
\* treats the answer as lockObject does.
LockOp(op, a) ==
    IF op = "ADTClient.lockProgram" THEN lockProgram(a)
    ELSE IF op = "lockProgramAlternative" THEN lockProgramAlternative(a)
    ELSE IF op = "lockSource" THEN lockSource(a)
    ELSE lockObject(a)

\* One call of a lock operation; pIn keeps the call, pOut what it returned.
LockCall(op, a) ==
    /\ pOut = <<>>
    /\ op \in LockOps(impl)
    /\ pIn' = <<op, a>>
    /\ pOut' = << LockOp(op, a) >>
    /\ UNCHANGED <<clientVars, call, flow, cacheVars>>

NextLockOps ==
    \E op \in LockOps("ADTClient") \cup LockOps("ADTClientImpl"), a \in AnyLockAnswers :
        LockCall(op, a)

SpecLockOps == InitFlow /\ [][NextLockOps]_vars

----------------------------------------------------------------------------
(* Program creation: metadata POST, source workflow, activation.            *)

notCreate == <<impl, csrfToken, authenticated, sessionType, call, pIn, pOut,
               cachedADTClient, cachedADTConfig, cacheTime, now, clients, gc, hist, proc>>

CreateOps(i) == IF i = "ADTClient" THEN {"CreateProgram"}
                ELSE {"CreateProgram", "CreateProgramWithOptions"}

\* createProgramMetadata taking every answer for a success.
createProgramMetadataAnyAnswer(a) == TRUE

\* createProgramMetadata and the POST of ADTClient.CreateProgram: 201 or 200.
createProgramMetadata(a) == ~a.neterr /\ a.status \in {200, 201}

\* activateProgram: 200, nothing else.
activateProgram(a) == ~a.neterr /\ a.status = 200

\* Whether the call goes on to set the source once the program exists:
\* ADTClient.CreateProgram calls UpdateProgramSource when source != "";
\* CreateProgramWithOptions calls insertProgramSource when InsertSource is set
\* and Source != ""; ADTClientImpl.CreateProgram never does.
SetsSource(c) ==
    IF impl = "ADTClient" THEN c.source # ""
    ELSE c.op = "CreateProgramWithOptions" /\ c.insert /\ c.source # ""

SourceKind(c) == IF impl = "ADTClient" THEN "UpdateProgramSource" ELSE "insertProgramSource"

\* What follows the source step (or its omission).
AfterSource(c) ==
    IF c.op = "CreateProgramWithOptions" /\ c.activate THEN "activate" ELSE "done"

CreateFree == create.pc \in {"idle", "done"}

\* Entry of CreateProgram / CreateProgramWithOptions: IsAuthenticated(), and in
\* ADTClientImpl the name check.
CreateStart(op, name, src, ins, act) ==
    LET refused == IF ~IsAuthenticated THEN "client not authenticated"
                   ELSE IF impl = "ADTClientImpl" /\ name = ""
                   THEN "program name cannot be empty"
                   ELSE "nil"
        c == [NoCreate EXCEPT !.op = op, !.source = src, !.insert = ins, !.activate = act]
    IN  /\ CreateFree /\ FlowFree(Caller) /\ CallFree
        /\ op \in CreateOps(impl)
        /\ op = "CreateProgram" => (~ins /\ ~act)
        /\ create' = IF refused # "nil" THEN [c EXCEPT !.pc = "done", !.err = refused]
                     ELSE [c EXCEPT !.pc = "meta"]
        /\ UNCHANGED <<flow, notCreate>>

\* The POST that creates the program, and the hand-over to the source workflow.
CreateMeta(a) ==
    LET c == [create EXCEPT !.sent = Append(@, [req |-> "CREATE",
                                                 status |-> IF a.neterr THEN 0 ELSE a.status])]
        f == [NoFlow EXCEPT !.kind = SourceKind(c), !.source = c.source,
                            !.orig = sessionType, !.pc = "lock",
                            !.prev = IF flow[Caller].granted # "" THEN flow[Caller].granted
                                     ELSE flow[Caller].prev]
    IN  /\ create.pc = "meta"
        /\ IF ~createProgramMetadata(a)
           THEN /\ create' = [c EXCEPT !.pc = "done", !.err = "failed to create program"]
                /\ UNCHANGED flow
           ELSE IF SetsSource(c)
           THEN /\ create' = [c EXCEPT !.pc = "source"]
                /\ flow' = [flow EXCEPT ![Caller] = f]
           ELSE /\ create' = [c EXCEPT !.pc = AfterSource(c)]
                /\ UNCHANGED flow
        /\ UNCHANGED notCreate

\* The source workflow returned: its error ends the call, otherwise on to the
\* activation or to the return.
CreateSourceReturn ==
    /\ create.pc = "source" /\ flow[Caller].pc = "done"
    /\ create' = IF flow[Caller].err # "nil"
                 THEN [create EXCEPT !.pc = "done", !.err = "source update failed"]
                 ELSE [create EXCEPT !.pc = AfterSource(create)]
    /\ UNCHANGED <<flow, notCreate>>

\* activateProgram's POST and the return of CreateProgramWithOptions.
CreateActivate(a) ==
    LET c == [create EXCEPT !.sent = Append(@, [req |-> "ACTIVATE",
                                                 status |-> IF a.neterr THEN 0 ELSE a.status])]
    IN  /\ create.pc = "activate"
        /\ create' = [c EXCEPT !.pc = "done",
                               !.err = IF activateProgram(a) THEN "nil"
                                       ELSE "failed to activate program"]
        /\ UNCHANGED <<flow, notCreate>>

NextCreate ==
    \/ \E op \in CreateOps("ADTClientImpl"), n \in Names, src \in Sources,
          ins \in BOOLEAN, act \in BOOLEAN : CreateStart(op, n, src, ins, act)
    \/ \E a \in {NetErr, Resp(200), Resp(201), Resp(409)} : CreateMeta(a)
    \/ \E a \in LockAnswers("ADTClient") \cup LockAnswers("ADTClientImpl") :
          FlowLock(Caller, a)
    \/ \E a \in LockAnswers("ADTClient") : FlowLockAlt(Caller, a)
    \/ \E a \in WriteAnswers : FlowPut(Caller, a)
    \/ \E a \in WriteAnswers : FlowUnlock(Caller, a)
    \/ CreateSourceReturn
    \/ \E a \in WriteAnswers : CreateActivate(a)

SpecCreate == InitFlow /\ [][NextCreate]_vars

----------------------------------------------------------------------------
(* The public object operations called on a client in any state.           *)

\* A client as any sequence of Authenticate calls can leave it: the flag and
\* the token are set by different steps.
InitGuard ==
    /\ impl \in Impls
    /\ csrfToken \in {"", "T1"} /\ authenticated \in BOOLEAN
    /\ sessionType \in SessionTypes
    /\ call = IdleCall
    /\ AuthRest

\* The entry of each public operation: Get* / Search / List, CreateProgram,
\* CreateProgramWithOptions, Update* and UpdateProgramSource.
NextGuard ==
    \/ ObjectOp
    \/ CreateProgram
    \/ \E op \in CreateOps("ADTClientImpl"), n \in Names, src \in Sources,
          ins \in BOOLEAN, act \in BOOLEAN : CreateStart(op, n, src, ins, act)
    \/ \E k \in PublicKinds, n \in Names, src \in Sources : FlowStart(Caller, k, n, src)

SpecGuard == InitGuard /\ [][NextGuard]_vars

----------------------------------------------------------------------------
(* The client cache of main.go.  Time is counted in minutes.                *)

cacheTimeout == 30
TickMinutes == 15
MaxNow == 30
MaxClients == 2
HistLen == 1

Users == {"alice", "bob", ""}
Profiles == {Profile("sap", "100", u, "pw") : u \in Users}

\* fmt.Sprintf("%s|%s|%s|%s", host, client, username, password)
configKeyNoUser(p) == p.host \o "|" \o p.client \o "|" \o "|" \o p.pass
configKey(p) == p.host \o "|" \o p.client \o "|" \o p.user \o "|" \o p.pass

\* The key getCachedADTClient writes next to the client it cached.
StoredKeyBlank(k) == ""
StoredKey(k) == k

\* ADTClient.IsAuthenticated() of the client with identity id.
ClientIsAuthenticated(id) == clients[id].authenticated /\ clients[id].csrfToken # ""

\* ping(): the client must be authenticated and HEAD /discovery answer 200 or 304.
PingOk(id, a) == ClientIsAuthenticated(id) /\ ~a.neterr /\ a.status \in {200, 304}

CacheValidNoExpiry(key) ==
    /\ cachedADTClient # 0
    /\ cachedADTConfig = key
    /\ ClientIsAuthenticated(cachedADTClient)

\* The condition under which the cached client is tried.
CacheValid(key) ==
    /\ cachedADTClient # 0
    /\ cachedADTConfig = key
    /\ now - cacheTime < cacheTimeout
    /\ ClientIsAuthenticated(cachedADTClient)

\* createADTClient refuses a profile without host, username or password before
\* it builds a client.
Configured(p) == p.host # "" /\ p.user # "" /\ p.pass # ""

CallFreeOf(p) == gc[p].pc \in {"idle", "done"}
Creating(p) == gc[p].pc \in {"create", "storeClient", "storeConfig", "storeTime"}

\* What hist keeps of a call that returned: the last HistLen of them, pushed
\* when the caller's next call begins.
Summary(c) == [profile |-> c.profile, client |-> c.client, auth |-> c.auth, err |-> c.err]
Remember(h, c) ==
    IF c.pc # "done" THEN h
    ELSE IF Len(h) < HistLen THEN Append(h, Summary(c))
    ELSE Append(Tail(h), Summary(c))

notCache == <<impl, csrfToken, authenticated, sessionType, call, flow, pIn, pOut, proc,
              create>>

\* Entry of getCachedADTClient: the key and the cache condition.  probe is the
\* answer the remote system would give to a ping sent now.
GetStart(p, prof, probe) ==
    LET key == configKey(prof)
        valid == CacheValid(key)
        others == {q \in Procs \ {p} : Creating(q)}
        c == [NoCall EXCEPT !.pc = IF valid THEN "ping" ELSE "create",
                            !.profile = prof, !.key = key, !.valid = valid,
                            !.seen = cachedADTClient,
                            !.age = IF cachedADTClient # 0 THEN now - cacheTime ELSE 0,
                            !.alive = cachedADTClient # 0 /\ PingOk(cachedADTClient, probe),
                            !.probe = probe,
                            !.overlap = others # {}]
    IN  /\ CallFreeOf(p)
        /\ Len(clients) + Cardinality({q \in Procs : ~CallFreeOf(q)}) < MaxClients
        /\ gc' = [q \in Procs |->
                    IF q = p THEN c
                    ELSE IF q \in others THEN [gc[q] EXCEPT !.overlap = TRUE]
                    ELSE gc[q]]
        /\ hist' = Remember(hist, gc[p])
        /\ UNCHANGED <<cachedADTClient, cachedADTConfig, cacheTime, now, clients, notCache>>

GetPingFatal(p) ==
    LET c == gc[p]
        ok == PingOk(cachedADTClient, c.probe)
        d == [c EXCEPT !.pc = "done", !.hit = TRUE, !.client = cachedADTClient]
        e == [c EXCEPT !.pc = "done", !.err = "ping failed"]
    IN  /\ c.pc = "ping"
        /\ gc' = [gc EXCEPT ![p] = IF ok THEN d ELSE e]
        /\ UNCHANGED <<cachedADTClient, cachedADTConfig, cacheTime, now, clients, hist,
                       notCache>>

\* The ping of the cached client: return it, or go on to create a new one.
GetPing(p) ==
    LET c == gc[p]
        ok == PingOk(cachedADTClient, c.probe)
        d == [c EXCEPT !.pc = "done", !.hit = TRUE, !.client = cachedADTClient]
    IN  /\ c.pc = "ping"
        /\ gc' = [gc EXCEPT ![p] = IF ok THEN d ELSE [c EXCEPT !.pc = "create"]]
        /\ UNCHANGED <<cachedADTClient, cachedADTConfig, cacheTime, now, clients, hist,
                       notCache>>

\* getCachedADTClient assigning the result of createADTClient to the cache
\* before it tests the error: a failed creation stores the nil client.
GetCreateStoreFirst(p, authOk) ==
    LET c == gc[p]
        id == Len(clients) + 1
        d == IF ~Configured(c.profile)
             THEN [c EXCEPT !.pc = "done", !.err = "not configured"]
             ELSE IF ~authOk
             THEN [c EXCEPT !.pc = "done", !.auth = 1, !.err = "ADT authentication failed"]
             ELSE [c EXCEPT !.pc = "storeClient", !.auth = 1, !.client = id]
    IN  /\ c.pc = "create"
        /\ gc' = [gc EXCEPT ![p] = d]
        /\ clients' = IF d.pc = "storeClient"
                      THEN Append(clients, [profile |-> c.profile, authenticated |-> TRUE,
                                            csrfToken |-> "T1"])
                      ELSE clients
        /\ cachedADTClient' = IF d.pc = "done" THEN 0 ELSE cachedADTClient
        /\ UNCHANGED <<cachedADTConfig, cacheTime, now, hist, notCache>>

\* createADTClient: the three configuration checks, NewADTClient,
\* SetSessionType(stateful), Authenticate.  On an error nothing is cached.
GetCreate(p, authOk) ==
    LET c == gc[p]
        id == Len(clients) + 1
        d == IF ~Configured(c.profile)
             THEN [c EXCEPT !.pc = "done", !.err = "not configured"]
             ELSE IF ~authOk
             THEN [c EXCEPT !.pc = "done", !.auth = 1, !.err = "ADT authentication failed"]
             ELSE [c EXCEPT !.pc = "storeClient", !.auth = 1, !.client = id]
    IN  /\ c.pc = "create"
        /\ gc' = [gc EXCEPT ![p] = d]
        /\ clients' = IF d.pc = "storeClient"
                      THEN Append(clients, [profile |-> c.profile, authenticated |-> TRUE,
                                            csrfToken |-> "T1"])
                      ELSE clients
        /\ UNCHANGED <<cachedADTClient, cachedADTConfig, cacheTime, now, hist, notCache>>

\* cachedADTClient = client
GetStoreClient(p) ==
    /\ gc[p].pc = "storeClient"
    /\ cachedADTClient' = gc[p].client
    /\ gc' = [gc EXCEPT ![p].pc = "storeConfig"]
    /\ UNCHANGED <<cachedADTConfig, cacheTime, now, clients, hist, notCache>>

\* cachedADTConfig = configKey
GetStoreConfig(p) ==
    /\ gc[p].pc = "storeConfig"
    /\ cachedADTConfig' = StoredKey(gc[p].key)
    /\ gc' = [gc EXCEPT ![p].pc = "storeTime"]
    /\ UNCHANGED <<cachedADTClient, cacheTime, now, clients, hist, notCache>>

\* cacheTime = time.Now(); return client, nil
GetStoreTime(p) ==
    LET d == [gc[p] EXCEPT !.pc = "done"]
    IN  /\ gc[p].pc = "storeTime"
        /\ cacheTime' = now
        /\ gc' = [gc EXCEPT ![p] = d]
        /\ UNCHANGED <<cachedADTClient, cachedADTConfig, now, clients, hist, notCache>>

\* The clock.
Tick ==
    /\ now + TickMinutes <= MaxNow
    /\ now' = now + TickMinutes
    /\ UNCHANGED <<cachedADTClient, cachedADTConfig, cacheTime, clients, gc, hist, notCache>>

\* handleConnect: TestConnection() on the client the call returned runs
\* Authenticate again; a token fetch answered without a token leaves the
\* client with csrfToken = "" (ADTClient.getCSRFToken stores before it tests).
HandleConnect(tok) ==
    /\ \A p \in Procs : CallFreeOf(p)
    /\ gc[Caller].pc = "done" /\ gc[Caller].client # 0
    /\ clients' = [clients EXCEPT ![gc[Caller].client].csrfToken = tok]
    /\ UNCHANGED <<cachedADTClient, cachedADTConfig, cacheTime, now, gc, hist, notCache>>

InitCache ==
    /\ impl = "ADTClient" /\ csrfToken = "" /\ authenticated = FALSE
    /\ sessionType = SessionStateful /\ call = IdleCall
    /\ flow = IdleFlow
    /\ pIn = <<>> /\ pOut = <<>>
    /\ CacheEmpty

\* One command after the other, as the command line drives the cache.
NextCache ==
    \/ \E prof \in Profiles, a \in {Resp(200), Resp(500)} : GetStart(Caller, prof, a)
    \/ GetPing(Caller)
    \/ \E ok \in BOOLEAN : GetCreate(Caller, ok)
    \/ GetStoreClient(Caller)
    \/ GetStoreConfig(Caller)
    \/ GetStoreTime(Caller)
    \/ Tick
    \/ \E tok \in {"", "T1"} : HandleConnect(tok)

SpecCache == InitCache /\ [][NextCache]_vars

\* Two callers at once, as inbound requests of a server would drive it.
NextCacheRace ==
    \/ \E p \in Procs, prof \in Profiles, a \in {Resp(200), Resp(500)} : GetStart(p, prof, a)
    \/ \E p \in Procs : GetPing(p)
    \/ \E p \in Procs, ok \in BOOLEAN : GetCreate(p, ok)
    \/ \E p \in Procs : GetStoreClient(p)
    \/ \E p \in Procs : GetStoreConfig(p)
    \/ \E p \in Procs : GetStoreTime(p)

SpecCacheRace == InitCache /\ [][NextCacheRace]_vars

\* The ways the process ends.
Signals == {"SIGINT", "SIGTERM"}
notMain == <<now, clients, gc, hist, impl, csrfToken, authenticated, sessionType, call,
             flow, pIn, pOut, create>>

\* runCLIMode / runServerMode came back and main returns: its deferred calls
\* run, cleanupADTCache first.
MainReturn ==
    /\ proc.pc = "running"
    /\ \A p \in Procs : CallFreeOf(p)
    /\ proc' = [proc EXCEPT !.pc = "deferred", !.by = "return"]
    /\ UNCHANGED <<cachedADTClient, cachedADTConfig, cacheTime, notMain>>

\* cleanupADTCache, the deferred call of main.
cleanupADTCache ==
    /\ proc.pc = "deferred"
    /\ IF cachedADTClient # 0
       THEN cachedADTClient' = 0 /\ cachedADTConfig' = "" /\ cacheTime' = 0
       ELSE UNCHANGED <<cachedADTClient, cachedADTConfig, cacheTime>>
    /\ proc' = [proc EXCEPT !.pc = "exited", !.cleanups = @ + 1]
    /\ UNCHANGED notMain

\* exitWithError: message, log, os.Exit(exitCode).  os.Exit runs no deferred call.
exitWithError ==
    /\ proc.pc = "running"
    /\ \A p \in Procs : CallFreeOf(p)
    /\ proc' = [proc EXCEPT !.pc = "exited", !.by = "exitWithError"]
    /\ UNCHANGED <<cachedADTClient, cachedADTConfig, cacheTime, notMain>>

\* The goroutine of setupSignalHandling: log, logger.Sync(), os.Exit(code),
\* whatever main is doing at that moment.
setupSignalHandling(sig) ==
    /\ proc.pc \in {"running", "deferred"}
    /\ proc' = [proc EXCEPT !.pc = "exited", !.by = sig]
    /\ UNCHANGED <<cachedADTClient, cachedADTConfig, cacheTime, notMain>>

\* The life of one process: commands while it runs, then one of the exits.
NextMain ==
    \/ proc.pc = "running" /\ NextCache
    \/ MainReturn
    \/ cleanupADTCache
    \/ exitWithError
    \/ \E sig \in Signals : setupSignalHandling(sig)

SpecMain == InitCache /\ [][NextMain]_vars

----------------------------------------------------------------------------
(* Claims about the source workflows (SpecFlow).                            *)

Finished(f) == f.pc = "done"
LockSucceeded(f) == f.lockHandle # ""
RequestsOf(f, kind) == {i \in 1..Len(f.sent) : f.sent[i].req = kind}
PutAccepted(f) ==
    \E i \in RequestsOf(f, "PUT") :
        f.sent[i].status \in (IF f.kind \in FamUpdate THEN {200} ELSE {200, 204})

\* C1: a workflow run whose lock step succeeded has, when it returns, attempted
\* exactly one unlock request, sent after the PUT, whether the PUT was accepted
\* or not; it attempts none before the PUT; and the error it returns is the
\* PUT's (nil when the PUT was accepted), whatever the unlock was answered.
C1_UnlockExactlyOnce ==
    \A p \in Procs :
        LET f == flow[p]
        IN  /\ (Finished(f) /\ LockSucceeded(f)) =>
                   /\ Cardinality(RequestsOf(f, "UNLOCK")) = 1
                   /\ Cardinality(RequestsOf(f, "PUT")) = 1
                   /\ f.sent[Len(f.sent)].req = "UNLOCK"
                   /\ f.sent[Len(f.sent) - 1].req = "PUT"
                   /\ f.err = IF PutAccepted(f) THEN "nil" ELSE "failed to set source"
            /\ f.pc \in {"lock", "lockAlt", "put"} => RequestsOf(f, "UNLOCK") = {}

\* A run (one of each family is admitted) whose PUT was answered 500 and whose unlock
\* was refused as well has returned the PUT error.
C1_Witness ==
    LET f == flow[Caller]
    IN  /\ Finished(f) /\ LockSucceeded(f)
        /\ f.kind \in {"setClassSource", "UpdateInclude", "insertProgramSource",
                       "UpdateProgramSource"}
        /\ f.sent[Len(f.sent) - 1].req = "PUT"
        /\ f.sent[Len(f.sent) - 1].status = 500
        /\ f.sent[Len(f.sent)].req = "UNLOCK"
        /\ f.sent[Len(f.sent)].status = 500
        /\ f.err = "failed to set source"

ContentTypeMissing(r) == r.req = "LOCK" /\ r.status = 400 /\ r.ctm

\* C8: in every workflow, whichever lock function it uses, a lock request
\* answered 400 "Content type missing" is followed by exactly one further lock
\* request with the form Content-Type, and no call sends more than two.
C8_RetryOnContentTypeMissing ==
    \A p \in Procs :
        LET f == flow[p]
            locks == RequestsOf(f, "LOCK")
        IN  /\ Cardinality(locks) <= 2
            /\ (f.pc # "lockAlt" /\ locks # {} /\ f.sent[1].enc = "none"
                  /\ ContentTypeMissing(f.sent[1])) =>
                   /\ Cardinality(locks) = 2
                   /\ f.sent[2].req = "LOCK" /\ f.sent[2].enc = "form"

\* C10: the handle a workflow run presents on its PUT and on its unlock is the
\* one the remote system issued in answer to that run's own lock request, which
\* precedes them, whatever handle an earlier run of the caller had obtained.
C10_HandleOfThisCycle ==
    \A p \in Procs :
        LET f == flow[p]
        IN  \A i \in RequestsOf(f, "PUT") \cup RequestsOf(f, "UNLOCK") :
                /\ f.sent[i].handle = f.granted
                /\ f.sent[i].handle # ""
                /\ \E j \in RequestsOf(f, "LOCK") : j < i /\ f.sent[j].status = 200

\* A later run that was issued another handle than the caller's earlier run
\* has presented the new one on both requests.
C10_Witness ==
    LET f == flow[Caller]
    IN  /\ Finished(f) /\ f.prev # "" /\ f.granted # "" /\ f.prev # f.granted
        /\ RequestsOf(f, "PUT") # {} /\ RequestsOf(f, "UNLOCK") # {}
        /\ \A i \in RequestsOf(f, "PUT") \cup RequestsOf(f, "UNLOCK") :
               f.sent[i].handle = f.granted

UnlockAccepted(f) ==
    \E i \in RequestsOf(f, "UNLOCK") :
        f.sent[i].status \in (IF f.kind \in FamUpdate THEN {200} ELSE {200, 204})

\* C11: a workflow run whose PUT failed and whose unlock failed as well
\* returns an error that carries both failures, the PUT's and the unlock's.
C11_UnlockFailureAppended ==
    \A p \in Procs :
        LET f == flow[p]
        IN  (Finished(f) /\ LockSucceeded(f) /\ ~PutAccepted(f) /\ ~UnlockAccepted(f)) =>
                {"put", "unlock"} \subseteq ErrCauses(f.err)



\* C25: a workflow run whose lock and PUT succeeded and whose unlock failed
\* returns nil; and a run whose PUT failed returns the PUT's error whether the
\* unlock failed or not.
C25_UnlockFailureNotFatal ==
    \A p \in Procs :
        LET f == flow[p]
        IN  (Finished(f) /\ LockSucceeded(f)) =>
                /\ (PutAccepted(f) /\ ~UnlockAccepted(f)) => f.err = "nil"
                /\ ~PutAccepted(f) => ErrCauses(f.err) = {"put"}

\* The PUT was accepted, the unlock was answered 500, and the run returned nil.
C25_Witness ==
    LET f == flow[Caller]
    IN  /\ Finished(f) /\ LockSucceeded(f) /\ PutAccepted(f)
        /\ f.sent[Len(f.sent)].req = "UNLOCK" /\ f.sent[Len(f.sent)].status = 500
        /\ f.err = "nil"

\* C27: every unlock operation whose request was answered treats the statuses
\* 200 and 204 as success and every other status as a failure of the unlock.
C27_UnlockAccepts200And204 ==
    \A p \in Procs :
        LET f == flow[p]
        IN  \A i \in RequestsOf(f, "UNLOCK") :
                (f.pc = "done" /\ f.sent[i].status # 0) =>
                    (f.unlockErr = "nil" <=> f.sent[i].status \in {200, 204})

\* C28: every source PUT whose request was answered treats the statuses 200 and
\* 204 as success and returns an error for every other status.
C28_PutAccepts200And204 ==
    \A p \in Procs :
        LET f == flow[p]
        IN  \A i \in RequestsOf(f, "PUT") :
                f.sent[i].status # 0 =>
                    (f.err = "nil" <=> f.sent[i].status \in {200, 204})

\* A set*Source call is between its entry and its return.
Running(f) == f.kind \in FamDefer /\ f.pc \in {"lock", "put", "unlock"}

\* C31: a sequential set*Source call saves sessionType at its entry, keeps the
\* client stateful while it runs, sends its lock, PUT and unlock requests with
\* session type stateful, and on its return (lock failure, PUT failure or
\* success) sessionType is the value it had at the entry.
C31_SessionTypeForcedAndRestored ==
    /\ [](\A q \in Procs :
             /\ Running(flow[q]) => sessionType = SessionStateful
             /\ flow[q].kind \in FamDefer =>
                    \A i \in 1..Len(flow[q].sent) :
                        flow[q].sent[i].stype = SessionStateful)
    /\ [][\A q \in Procs :
             /\ (~Running(flow[q]) /\ Running(flow'[q])) => flow'[q].orig = sessionType
             /\ (Running(flow[q]) /\ ~Running(flow'[q])) =>
                    /\ flow'[q].pc = "done"
                    /\ sessionType' = flow[q].orig]_vars

\* A call entered with a stateless client returned after a refused PUT and an
\* unlock sent stateful; the client is stateless again.
C31_Witness ==
    LET f == flow[Caller]
    IN  /\ Finished(f) /\ f.kind \in FamDefer /\ f.orig = SessionStateless
        /\ Len(f.sent) = 3 /\ f.sent[2].req = "PUT" /\ f.sent[2].status = 500
        /\ f.sent[3].req = "UNLOCK" /\ f.sent[3].stype = SessionStateful
        /\ f.err = "failed to set source"
        /\ sessionType = SessionStateless

\* The lock request at position j of the run was refused for good: a transport
\* error or a status other than 200, and not the 400 "Content type missing"
\* that ADTClient.lockProgram hands to lockProgramAlternative.
LockRefused(f, j) ==
    /\ f.sent[j].req = "LOCK" /\ f.sent[j].status # 200
    /\ ~(f.kind \in FamLegacy /\ f.sent[j].enc = "none"
                               /\ f.sent[j].status = 400 /\ f.sent[j].ctm)

\* C29: a workflow run whose lock step failed (transport error, status other
\* than 200, or a 200 answer that yields no handle) returns the lock error and
\* has sent neither a PUT nor an unlock; and every PUT was sent after a lock
\* request answered 200 and carries the non-empty handle that lock call returned.
C29_NoPutWithoutLock ==
    \A p \in Procs :
        LET f == flow[p]
        IN  /\ \A j \in 1..Len(f.sent) :
                   LockRefused(f, j) =>
                       /\ j = Len(f.sent) /\ Finished(f)
                       /\ ErrCauses(f.err) = {"lock"}
            /\ (Finished(f) /\ RequestsOf(f, "LOCK") # {} /\ ~LockSucceeded(f)) =>
                   /\ ErrCauses(f.err) = {"lock"}
                   /\ RequestsOf(f, "PUT") = {} /\ RequestsOf(f, "UNLOCK") = {}
            /\ \A i \in RequestsOf(f, "PUT") :
                   /\ LockSucceeded(f) /\ f.sent[i].handle = f.lockHandle
                   /\ f.sent[i - 1].req = "LOCK" /\ f.sent[i - 1].status = 200

\* The lock request was answered 200 without a handle the lock call could
\* read; the run returned the lock error after that one request.
C29_Witness ==
    LET f == flow[Caller]
    IN  /\ Finished(f) /\ f.kind \in {"setProgramSource", "UpdateProgram", "UpdateProgramSource"}
        /\ Len(f.sent) = 1 /\ f.sent[1].req = "LOCK" /\ f.sent[1].status = 200
        /\ f.lockHandle = "" /\ f.err = "failed to lock"

----------------------------------------------------------------------------
(* Claims about two callers racing for one lock (SpecLockRace).             *)

LastSent(f) == f.sent[Len(f.sent)]
\* The caller's lock request was refused with 403 or 409 and its call returned.
LostRace(f) ==
    /\ f.pc = "done" /\ f.sent # <<>>
    /\ LastSent(f).req = "LOCK" /\ LastSent(f).status \in {403, 409}

\* C20: of two callers racing for the lock of one object at most one holds a
\* lock handle, and the caller whose lock request was answered 403 or 409 gets
\* no handle and an error of a kind of its own: its format is not the one any
\* other refused lock request (400, 500, transport error) is reported with.
C20_LoserGetsAlreadyLocked ==
    /\ Cardinality({p \in Procs : Holds(p) /\ flow[p].lockHandle # ""}) <= 1
    /\ \A p \in Procs :
           LET f == flow[p]
           IN  LostRace(f) =>
                   /\ f.lockHandle = "" /\ f.err = "failed to lock"
                   /\ \A st \in {0, 400, 500} :
                          LockError(f.kind, st).fmt #
                              LockError(f.kind, LastSent(f).status).fmt


\* Both callers ran a set*Source workflow and both have returned.
BothReturned == \A p \in Procs : Finished(flow[p]) /\ flow[p].kind \in FamDefer
\* The client was stateless when the first of them entered: that caller saved
\* stateless (nothing but these workflows assigns sessionType here).
EnteredStateless == \E p \in Procs : flow[p].orig = SessionStateless

\* C32: two set*Source workflows on one client that is stateless at the start:
\* in every interleaving each lock, PUT and unlock request of both carries
\* session type stateful, and once both have returned the client is
\* stateless again.
C32_ConcurrentSessionType ==
    /\ \A p \in Procs :
           flow[p].kind \in FamDefer =>
               \A i \in 1..Len(flow[p].sent) :
                   flow[p].sent[i].stype = SessionStateful
    /\ (BothReturned /\ EnteredStateless) => sessionType = SessionStateless

----------------------------------------------------------------------------
(* Claims about program creation (SpecCreate).                              *)

ActivationsOf(c) == {i \in 1..Len(c.sent) : c.sent[i].req = "ACTIVATE"}
ActivationAsked(c) ==
    c.op = "CreateProgramWithOptions" /\ c.activate /\ ActivationsOf(c) # {}

\* C21: a CreateProgramWithOptions call with Activate set requests the
\* activation only once the source workflow (when there is one) has had its PUT
\* accepted and its unlock accepted; the call returns nil exactly when the
\* activation was answered with a 2xx status; and the activation request is the
\* last request of the call, whatever it was answered.
C21_ActivationAfterCommit ==
    LET c == create
        f == flow[Caller]
    IN  ActivationAsked(c) =>
            /\ SetsSource(c) =>
                   (Finished(f) /\ PutAccepted(f) /\ UnlockAccepted(f))
            /\ c.pc = "done"
            /\ Cardinality(ActivationsOf(c)) = 1
            /\ c.sent[Len(c.sent)].req = "ACTIVATE"
            /\ SetsSource(c) => f.sent[Len(f.sent)].req = "UNLOCK"
            /\ (c.sent[Len(c.sent)].status \in 200..299) = (c.err = "nil")


\* The program exists: the metadata POST of the call was accepted.
MetaAccepted(c) == c.sent # <<>> /\ c.sent[1].req = "CREATE" /\ c.sent[1].status \in {200, 201}

\* C22: a CreateProgram call with a non-blank source whose metadata POST was
\* accepted runs the source workflow (lock, PUT, unlock) on the new program,
\* in either implementation, and returns nil only if the PUT was accepted.
C22_CreateSetsSource ==
    LET c == create
        f == flow[Caller]
    IN  (c.op = "CreateProgram" /\ c.pc = "done" /\ c.source # "" /\ MetaAccepted(c)) =>
            /\ SetsSource(c)
            /\ Finished(f) /\ RequestsOf(f, "LOCK") # {}
            /\ c.err = "nil" =>
                   (PutAccepted(f) /\ f.sent[Len(f.sent)].req = "UNLOCK")

----------------------------------------------------------------------------
(* Claims about the client cache (SpecCache, SpecCacheRace).                *)

CallDone(c) == c.pc = "done"
DiffersOnlyInUsername(p, q) ==
    p.host = q.host /\ p.client = q.client /\ p.pass = q.pass /\ p.user # q.user

C6_UsernameChangeAuthenticates ==
    LET b == gc[Caller]
    IN  (CallDone(b) /\ b.seen # 0 /\ DiffersOnlyInUsername(b.profile, clients[b.seen].profile)) =>
            /\ b.client # b.seen
            /\ b.auth = 1

\* C6, amended: such a call never returns the cached client; it runs
\* Authenticate when its username is not empty, and with an empty username it
\* fails on the configuration check without authenticating.
C6_UsernameChangeNeverHits ==
    LET b == gc[Caller]
    IN  (CallDone(b) /\ b.seen # 0 /\ DiffersOnlyInUsername(b.profile, clients[b.seen].profile)) =>
            /\ b.client # b.seen
            /\ ~b.hit
            /\ b.auth = (IF b.profile.user # "" THEN 1 ELSE 0)
            /\ b.profile.user = "" => (b.err = "not configured" /\ b.client = 0)

\* The cached entry was fresh, authenticated and alive, the call named another
\* user, and it returned a newly authenticated client.
C6_Witness ==
    LET b == gc[Caller]
    IN  /\ CallDone(b) /\ b.seen # 0
        /\ DiffersOnlyInUsername(b.profile, clients[b.seen].profile)
        /\ b.age < cacheTimeout /\ b.alive
        /\ b.err = "nil" /\ b.auth = 1 /\ b.client # 0 /\ b.client # b.seen

\* C7: two calls with the same key that overlapped and both found the cache
\* condition false run at most one Authenticate between them and return the
\* same client.
C7_CreationSerialized ==
    \A p \in Procs : \A q \in Procs \ {p} :
        LET a == gc[p]
            b == gc[q]
        IN  (CallDone(a) /\ CallDone(b) /\ a.overlap /\ b.overlap /\ a.key = b.key
               /\ ~a.valid /\ ~b.valid /\ a.err = "nil" /\ b.err = "nil") =>
                /\ a.auth + b.auth <= 1
                /\ a.client = b.client

----------------------------------------------------------------------------
(* Claims about the cache over the life of the process (SpecMain).          *)

EntryChanged ==
    <<cachedADTClient, cachedADTConfig, cacheTime>>' #
        <<cachedADTClient, cachedADTConfig, cacheTime>>

\* The cache entry changes only in a step of a getCachedADTClient call or in
\* cleanupADTCache: no step of the clock or of anything else touches it.
NoSweep ==
    EntryChanged => ((\E p \in Procs : ~CallFreeOf(p)) \/ proc.pc = "deferred")

\* The step in which p's getCachedADTClient call returns.
Returns(p) == gc[p].pc # "done" /\ gc'[p].pc = "done"
\* The call found an entry at least cacheTimeout old when it was made.
Expired(c) == c.seen # 0 /\ c.age >= cacheTimeout

\* C17 as stated: the entry changes only inside getCachedADTClient or
\* cleanupADTCache, and a getCachedADTClient call made when the entry is at
\* least cacheTimeout (30 minutes) old never returns the cached client, runs an
\* authentication and resets cacheTime.
C17_ExpiredCallReauthenticates ==
    [][/\ NoSweep
       /\ \A p \in Procs :
            (Returns(p) /\ Expired(gc'[p])) =>
                /\ ~gc'[p].hit /\ gc'[p].client # gc'[p].seen
                /\ gc'[p].auth = 1
                /\ cacheTime' = now']_vars

\* C17, amended: the entry changes only inside getCachedADTClient or
\* cleanupADTCache; a call made on an entry at least cacheTimeout old never
\* returns the cached client; it runs an authentication exactly when the
\* profile is configured; when that succeeds the new client is cached and
\* cacheTime is reset, and when the call fails the old entry stays, expired.
C17_ExpiredEntryNeverReturned ==
    [][/\ NoSweep
       /\ \A p \in Procs :
            LET c == gc'[p]
            IN  (Returns(p) /\ Expired(c)) =>
                    /\ ~c.hit /\ c.client # c.seen
                    /\ (c.auth = 1) = Configured(c.profile)
                    /\ IF c.err = "nil"
                       THEN /\ c.auth = 1 /\ c.client # 0
                            /\ cachedADTClient' = c.client
                            /\ cacheTime' = now'
                       ELSE /\ c.client = 0
                            /\ cachedADTClient' = c.seen
                            /\ now' - cacheTime' >= cacheTimeout]_vars

\* A call made on an expired entry has authenticated, cached the new client and
\* reset cacheTime.
C17_Witness ==
    LET c == gc[Caller]
    IN  /\ CallDone(c) /\ Expired(c)
        /\ c.err = "nil" /\ c.auth = 1 /\ ~c.hit
        /\ c.client # c.seen /\ cachedADTClient = c.client
        /\ cacheTime = now /\ cacheTime >= cacheTimeout


----------------------------------------------------------------------------
(* Claims about the errors of getCachedADTClient (SpecCache).               *)

\* The call found the cache condition true and its ping of the cached client failed.
PingFailed(c) == c.valid /\ ~c.alive

\* C18: a getCachedADTClient call whose ping of a valid cached client failed
\* never returns that failure: it goes on to createADTClient and runs
\* Authenticate; and a call whose Authenticate failed returns that error with
\* no client, neither nil nor the cached client.
C18_PingSwallowedAuthReturned ==
    \A p \in Procs :
        LET c == gc[p]
        IN  CallDone(c) =>
                /\ PingFailed(c) => (c.auth = 1 /\ ~c.hit)
                /\ c.err \in {"nil", "not configured", "ADT authentication failed"}
                /\ (c.err = "nil") = (c.client # 0)
                /\ (c.err = "nil" /\ ~c.hit) =>
                       (c.auth = 1 /\ c.client # c.seen)
                /\ (c.err = "ADT authentication failed") = (c.auth = 1 /\ c.client = 0)

\* The ping of a valid cached client failed, and so did the authentication that
\* followed: the caller got the authentication error, and the old client
\* is still the cached one.
C18_Witness ==
    LET c == gc[Caller]
    IN  /\ CallDone(c) /\ PingFailed(c)
        /\ c.auth = 1 /\ c.err = "ADT authentication failed" /\ c.client = 0
        /\ cachedADTClient = c.seen /\ c.seen # 0


----------------------------------------------------------------------------
(* Claims about process shutdown (SpecMain).                                *)

Exited == proc.pc = "exited"

\* C19: cleanupADTCache leaves no cache entry (after it no getCachedADTClient
\* call could find the cache condition true), and it has run exactly once
\* whenever the process has ended after start-up: by the return of main, by
\* exitWithError, or by SIGINT/SIGTERM.
C19_CleanupOnceOnEveryExit ==
    /\ proc.cleanups >= 1 =>
           (cachedADTClient = 0 /\ \A prof \in Profiles : ~CacheValid(configKey(prof)))
    /\ Exited => proc.cleanups = 1

----------------------------------------------------------------------------
(* Claims about the handshake (SpecAuth).                                  *)

InAuthenticate == call.op \in {"Authenticate", "TestConnection"}
Returned == call.pc = "done"

StepIndex(st) == CHOOSE i \in 1..Len(StepOrder) : StepOrder[i] = st

\* C2: an Authenticate call whose login step was answered 401 has
\* authenticated == false when it returns, whatever the client's state before.
C2_Login401NeverAuthenticated ==
    (InAuthenticate /\ Returned /\ call.err = "login failed: 401") => ~authenticated

\* C3: in every reachable state authenticated == true implies csrfToken # "".
C3_AuthenticatedImpliesToken ==
    authenticated => csrfToken # ""

C4_Order ==
    LET n == Len(call.steps)
        m == Len(call.reqs)
    IN  /\ n <= Len(StepOrder)
        \* the steps completed so far are the first n, in order, each once
        /\ \A i \in 1..n : call.steps[i].step = StepOrder[i]
        \* a step ran only when every earlier step had succeeded
        /\ \A i \in 1..n : i < n => call.steps[i].ok
        \* requests follow the step order, and none belongs to a step after a failed one
        /\ \A j \in 1..m : StepIndex(call.reqs[j]) <= n + 1
        /\ \A j \in 1..m : j < m => StepIndex(call.reqs[j]) <= StepIndex(call.reqs[j + 1])
        /\ \A j \in 1..m : StepIndex(call.reqs[j]) = n + 1 => \A i \in 1..n : call.steps[i].ok
        \* the first failing step ends the call with that step's error
        /\ (n >= 1 /\ ~call.steps[n].ok) =>
               /\ Returned /\ call.err # "nil"
               /\ m >= 1 /\ call.reqs[m] = call.steps[n].step
        \* Authenticate returning nil: all four steps succeeded, IsAuthenticated()
        /\ (InAuthenticate /\ Returned /\ call.err = "nil") =>
               /\ n = Len(StepOrder) /\ \A i \in 1..n : call.steps[i].ok
               /\ IsAuthenticated

C4_SetOnlyAfterAllFour ==
    (~authenticated /\ authenticated') =>
        /\ Len(call'.steps) = Len(StepOrder)
        /\ \A i \in 1..Len(StepOrder) : call'.steps[i].ok

\* C4: one Authenticate call runs connectivity -> login -> CSRF -> validation in
\* that order, each step at most once and only after the earlier ones succeeded;
\* the first failing step ends the call with its error and no further request;
\* authenticated becomes true only after all four succeeded, and a nil return
\* implies IsAuthenticated().
C4_HandshakeOrder == [](C4_Order) /\ [][C4_SetOnlyAfterAllFour]_vars

C4_Witness ==
    /\ call.op = "Authenticate" /\ Returned /\ call.err = "nil"
    /\ Len(call.steps) = 4 /\ Len(call.reqs) > 4

StepsOk(n) == Len(call.steps) >= n /\ \A i \in 1..n : call.steps[i].ok
AnswersOf(step) == {i \in 1..Len(call.ans) : call.ans[i].step = step}

\* C12: an Authenticate call that obtained a token in step 3 and whose
\* validation requests all failed (a status other than 200/304, or a transport
\* error) still returns nil with authenticated == true.
C12_ValidationToleratesFailures ==
    (/\ InAuthenticate /\ Returned /\ StepsOk(3) /\ Len(call.steps) = 4
     /\ csrfToken \notin {"", "Fetch"}
     /\ AnswersOf("validate") # {}
     /\ \A i \in AnswersOf("validate") : call.ans[i].status \notin {200, 304}) =>
        /\ call.err = "nil"
        /\ authenticated

\* The login step has ended and no later request was sent yet.
LoginEnded ==
    /\ InAuthenticate /\ Len(call.steps) = 2
    /\ call.ans # <<>> /\ call.ans[1].step = "login"

\* C13: the login sends one request per known path, in order, and stops at the
\* first 200/304 (success), 401 (invalid credentials) or 403 (missing
\* authorization); after a 404, another status or a transport error it goes on
\* to the next path; when the paths are used up without a 200/304 it fails.
C13_LoginClassification ==
    LoginEnded =>
        LET n == Len(call.ans)
            last == call.ans[n].status
            ok == call.steps[2].ok
        IN  /\ n <= Len(endpoints)
            /\ \A i \in 1..(n - 1) : call.ans[i].status \notin {200, 304, 401, 403}
            /\ last \in {200, 304} => (ok /\ call.err = "nil")
            /\ last = 401 => (~ok /\ call.err = "login failed: 401")
            /\ last = 403 => (~ok /\ call.err = "login failed: 403")
            /\ last \notin {200, 304, 401, 403} =>
                   (n = Len(endpoints) /\ ~ok /\ call.err # "nil")

\* C14: a token fetch answered without a token, or with the placeholder
\* "Fetch", fails the step: Authenticate returns the error and sends no
\* validation request.
C14_PlaceholderTokenFatal ==
    (InAuthenticate /\ Len(call.steps) >= 3 /\ call.tok \in {"", "Fetch"}) =>
        /\ ~call.steps[3].ok
        /\ Returned /\ call.err = "CSRF token retrieval failed"
        /\ \A j \in 1..Len(call.reqs) : call.reqs[j] # "validate"

\* C15: every request of the client other than the bare connectivity probe
\* (login, token fetch, validation, reads) carries X-sap-adt-sessiontype:
\* stateful, whatever SetSessionType stored.
C15_SessionHeaderStateful ==
    \A i \in 1..Len(call.hdrs) :
        call.hdrs[i].step # "connectivity" => call.hdrs[i].stype = SessionStateful

Passwords == {"pw", "geheim"}
LoginAnswered401 ==
    /\ call.ans # <<>>
    /\ call.ans[Len(call.ans)] = [step |-> "login", status |-> 401]

ClassOf ==
    [m \in Markers |->
        IF m = "connection refused" THEN "connection refused"
        ELSE IF m = "timeout" THEN "connection timeout"
        ELSE IF m = "no such host" THEN "hostname resolution failed"
        ELSE "connection closed immediately (EOF)"]
ConnectivityFailed ==
    Returned /\ call.err \in {"basic connectivity failed", "connectivity test failed"}

\* C24: a failed connectivity probe is reported by its cause: a message with
\* one of the four markers (refused, timeout, no such host, EOF) gets the
\* diagnostic of that marker, the four diagnostics differ from each other and
\* from the fallback, a message with no marker gets the fallback, and a message
\* gets the diagnostic of one of the markers it contains.
C24_ConnectivityClassified ==
    ConnectivityFailed =>
        LET m == call.conn.msg
            d == call.conn.class
        IN  /\ \A x \in Markers : m = {x} => d = ClassOf[x]
            /\ \A x \in Markers : \A y \in Markers \ {x} : ClassOf[x] # ClassOf[y]
            /\ m = {} => d \notin {ClassOf[x] : x \in Markers}
            /\ m # {} => d \in {ClassOf[x] : x \in m}

----------------------------------------------------------------------------
(* Claims about parseLockResponse (SpecParse).                             *)

Parsed == pOut # <<>>

Attempts(b) ==
    LET a == UnmarshalLockResponse(b)
        o == UnmarshalObjectRefs(b)
        r == RawMarker(b)
    IN  << [ok |-> ~a.err, h |-> a.LockHandle, c |-> a.CorrNr],
           [ok |-> ~o.err, h |-> o.LockHandle, c |-> o.CorrNr],
           [ok |-> r.found, h |-> r.handle, c |-> ""] >>

\* out is the result of the first attempt of wins, or the error that carries
\* the body when no attempt wins.
FirstWinOrError(b, wins, out) ==
    IF wins = {} THEN out = ParseFailure(b)
    ELSE LET k == CHOOSE x \in wins : \A y \in wins : x <= y
         IN  out = ParseResult(Attempts(b)[k].h, Attempts(b)[k].c, FALSE)

\* C26 as stated: parseLockResponse returns the result of the first of the three
\* attempts (abap envelope, objectReferences envelope, raw marker) that yields a
\* non-empty handle, and an error carrying the raw body when none does.
C26_FirstNonEmptyHandleOrError ==
    Parsed =>
        \A i \in 1..2 :
            FirstWinOrError(pIn[i],
                {k \in 1..3 : Attempts(pIn[i])[k].ok /\ Attempts(pIn[i])[k].h # ""},
                pOut[i])

\* C26 amended: the two envelope attempts win only with a non-empty handle; the
\* raw marker attempt wins whenever the marker pair is found, and its text is
\* returned with nil error even when it is empty; the error carrying the raw
\* body is returned only when no envelope yields a handle and no marker pair
\* is found.
C26_FirstHandleOrMarkerOrError ==
    Parsed =>
        \A i \in 1..2 :
            FirstWinOrError(pIn[i],
                {k \in 1..3 : Attempts(pIn[i])[k].ok
                                /\ (k = 3 \/ Attempts(pIn[i])[k].h # "")},
                pOut[i])

C26_Witness ==
    /\ Parsed
    /\ pIn = <<EncMarker(""), EncBroken>>
    /\ pOut[1] = ParseResult("", "", FALSE)
    /\ pOut[2] = ParseFailure(EncBroken)

----------------------------------------------------------------------------
(* Claims about the order of the creation steps (SpecCreate).               *)

\* The step sends a request of the source workflow / of the creation call.
SendsFlow(k) ==
    /\ Len(flow'[Caller].sent) = Len(flow[Caller].sent) + 1
    /\ LastSent(flow'[Caller]).req = k
SendsCreate(k) ==
    /\ Len(create'.sent) = Len(create.sent) + 1
    /\ create'.sent[Len(create'.sent)].req = k

\* C37: CreateProgramWithOptions issues create metadata -> lock -> PUT ->
\* unlock -> activate in this order.  The metadata POST is the first request;
\* the lock is sent only after an accepted metadata POST; the PUT only after a
\* lock that succeeded; the unlock directly after the PUT; the activation only
\* after the metadata was accepted and, when a source is inserted, after the
\* insertion returned nil with its unlock attempted.  A call that has
\* returned sends nothing more: no request follows a failure.
C37_CreateStepsInOrder ==
    [][create.op = "CreateProgramWithOptions" =>
          /\ SendsCreate("CREATE") => create.sent = <<>>
          /\ SendsFlow("LOCK") =>
                 (MetaAccepted(create) /\ Len(create.sent) = 1
                    /\ RequestsOf(flow[Caller], "PUT") = {})
          /\ SendsFlow("PUT") =>
                 (MetaAccepted(create) /\ Len(create.sent) = 1
                    /\ LastSent(flow[Caller]).req = "LOCK"
                    /\ LastSent(flow[Caller]).status = 200)
          /\ SendsFlow("UNLOCK") =>
                 (MetaAccepted(create) /\ Len(create.sent) = 1
                    /\ LastSent(flow[Caller]).req = "PUT")
          /\ SendsCreate("ACTIVATE") =>
                 /\ MetaAccepted(create) /\ Len(create.sent) = 1 /\ create.activate
                 /\ SetsSource(create) =>
                        /\ Finished(flow[Caller]) /\ flow[Caller].err = "nil"
                        /\ PutAccepted(flow[Caller])
                        /\ LastSent(flow[Caller]).req = "UNLOCK"
          /\ (create.pc = "done" /\ create' # create) =>
                 (create'.sent = <<>> /\ flow' = flow)
          /\ (create.pc \notin {"idle", "done"} /\ create'.pc = "done"
                /\ create'.err # "nil") =>
                 /\ flow' = flow
                 /\ \/ create'.sent = create.sent
                    \/ create.pc = "meta" /\ SendsCreate("CREATE")
                    \/ create.pc = "activate" /\ SendsCreate("ACTIVATE")]_vars

\* The metadata was created, the PUT of the source was refused, the unlock
\* followed, and the call returned its error without an activation or any
\* other request.
C37_Witness ==
    LET f == flow[Caller]
    IN  /\ create.op = "CreateProgramWithOptions" /\ create.activate
        /\ create.pc = "done" /\ create.err = "source update failed"
        /\ MetaAccepted(create) /\ Len(create.sent) = 1
        /\ Len(f.sent) = 3 /\ f.sent[1].req = "LOCK" /\ f.sent[2].req = "PUT"
        /\ f.sent[2].status = 500 /\ f.sent[3].req = "UNLOCK"

----------------------------------------------------------------------------
(* Claims about the stored token (SpecAuth).                                *)

\* C35: in every reachable state of a client, IsAuthenticated() implies that
\* the stored csrfToken is neither empty nor the placeholder "Fetch".
C35_AuthenticatedTokenIsReal ==
    IsAuthenticated => csrfToken \notin {"", "Fetch"}

----------------------------------------------------------------------------
(* Claims about failed getCachedADTClient calls (SpecCache).                *)

\* p's call has not yet got a client from createADTClient.
BeforeStore(c) == c.pc \in {"idle", "done", "ping", "create"}
Failed(c) == c.pc = "done" /\ c.err # "nil"

\* C33: a getCachedADTClient call that fails leaves cachedADTClient,
\* cachedADTConfig and cacheTime as they were: no step of a call up to and
\* including the return of createADTClient's error changes them, a failed
\* call has passed through no other step, and it has built and stored no client.
C33_FailedCallLeavesCache ==
    /\ [](\A p \in Procs :
             Failed(gc[p]) => (gc[p].client = 0 /\ cachedADTClient \in 0..Len(clients)))
    /\ [][\A p \in Procs :
             /\ (BeforeStore(gc[p]) /\ BeforeStore(gc'[p]) /\ gc'[p] # gc[p]) =>
                    ~EntryChanged
             /\ (Returns(p) /\ gc'[p].err # "nil") =>
                    (gc[p].pc = "create" /\ ~EntryChanged /\ clients' = clients)]_vars

\* A call for another profile failed at authentication while an entry was
\* cached; the entry found at the call's entry is still the cached one.
C33_Witness ==
    LET c == gc[Caller]
    IN  /\ Failed(c) /\ c.err = "ADT authentication failed"
        /\ c.seen # 0 /\ cachedADTClient = c.seen
        /\ cachedADTConfig # c.key /\ cachedADTConfig # ""

----------------------------------------------------------------------------
(* Claims about the cache entry under concurrent calls (SpecCacheRace).     *)

\* No call is between its first and its last assignment to the cache.
NoStoreInProgress ==
    \A p \in Procs : gc[p].pc \notin {"storeClient", "storeConfig", "storeTime"}

\* C34: under any interleaving of getCachedADTClient calls, a cached client was
\* built from the profile whose fingerprint is cachedADTConfig, and a call
\* answered from the cache got a client built from the profile it asked for.
C34_EntryMatchesFingerprint ==
    /\ (NoStoreInProgress /\ cachedADTClient # 0) =>
           configKey(clients[cachedADTClient].profile) = cachedADTConfig
    /\ \A p \in Procs :
           (gc[p].pc = "done" /\ gc[p].hit) =>
               clients[gc[p].client].profile = gc[p].profile

----------------------------------------------------------------------------
(* Claims about the authentication guard (SpecGuard).                       *)

Refused(r) == r.pc = "done" /\ r.err = "client not authenticated"

\* C36: a public object operation called while IsAuthenticated() is false
\* returns "client not authenticated", sends no request, and leaves the
\* client's token, flag and session type as they were.
C36_GuardRefusesWithoutEffect ==
    [][~IsAuthenticated =>
          /\ UNCHANGED clientVars
          /\ call' # call =>
                 (Refused(call') /\ call'.hdrs = <<>> /\ call'.reqs = <<>>)
          /\ create' # create => (Refused(create') /\ create'.sent = <<>>)
          /\ flow' # flow =>
                 \A p \in Procs :
                     flow'[p] # flow[p] => (Refused(flow'[p]) /\ flow'[p].sent = <<>>)]_vars

\* The flag is set but the token is empty; a read, a creation and an update
\* were each refused and nothing was sent.
C36_Witness ==
    /\ authenticated /\ ~IsAuthenticated
    /\ Refused(call) /\ call.op = "ObjectOp" /\ call.hdrs = <<>>
    /\ Refused(create) /\ create.op = "CreateProgramWithOptions" /\ create.sent = <<>>
    /\ Refused(flow[Caller]) /\ flow[Caller].kind = "UpdateProgram"
    /\ flow[Caller].sent = <<>>

----------------------------------------------------------------------------
(* Claims about the lock operations (SpecLockOps).                          *)

\* C30: no lock operation returns a nil error together with an empty lock
\* handle, whatever the remote system answered.
C30_NoEmptyHandleWithNilError ==
    pOut # <<>> => (pOut[1].ok => pOut[1].lockHandle # "")

\* lockObject was answered 200 with a body whose only handle is an empty
\* lockHandle element, and returned an error.
C30_Witness ==
    /\ pOut # <<>>
    /\ pIn[1] = "lockObject"
    /\ pIn[2].status = 200 /\ pIn[2].body = EncMarker("")
    /\ parseLockResponse(pIn[2].body) = ParseResult("", "", FALSE)
    /\ ~pOut[1].ok

====
